---- MODULE Spec2Model ----
(***************************************************************************)
(* MarketOps authorization kernel: the Federation Core receipt generator   *)
(* (the Receipt Authority), the GitHub publisher (the receipt-enforcing    *)
(* Executor) and the receipts that travel between them.                    *)
(*                                                                         *)
(* Receipts are Python objects: mutable and shared by reference.  They     *)
(* live in `heap`; a receipt is named by its index in `heap`.  Two         *)
(* classes are called EnforceableReceipt: the one of                       *)
(* federation_core_receipt_generator.py (cls = "fc": sign,                 *)
(* verify_signature, no mark_consumed) and the one of                      *)
(* github_publisher_phase2.py (cls = "pub": mark_consumed, no signature).  *)
(*                                                                         *)
(* Time is counted in hours.  A hash (md5, sha256, HMAC) is modelled as    *)
(* the tuple of what it was computed from: an ideal, collision-free hash.  *)
(***************************************************************************)
EXTENDS Integers, Sequences, FiniteSets, TLC

(***************************************************************************)
(* Bounds of the model                                                     *)
(***************************************************************************)
MaxSteps == 3           \* receipts created plus Executor calls made
MaxAuthoritySteps == 4  \* Authority calls made: mints plus verifications
MaxTime == 2            \* the clock stops here
MaxSharedReceipts == 1  \* receipts minted before concurrent callers start

(***************************************************************************)
(* Program constants                                                       *)
(***************************************************************************)
RECEIPT_TTL_HOURS == 1
MAX_RECEIPT_AGE_HOURS == 24
MAX_RETRIES == 3
requests_per_hour == 5000

(***************************************************************************)
(* Input domains                                                           *)
(***************************************************************************)
RunIds == {"r-1", "r-2"}

PUBLISH_RELEASE == "publish_release"
TAG_REPO == "tag_repo"
OPEN_PR == "open_pr"
OperationKind == {PUBLISH_RELEASE, TAG_REPO, OPEN_PR}

PROD == "prod"
DRY_RUN == "dry_run"
PublisherMode == {PROD, DRY_RUN}

\* "owner/name" is the sequence of its "/"-separated parts
OmegaApp == <<"omega", "app">>
RandomX == <<"random", "x">>

fc_id == "federation-core-test"
fc_secret == "test-secret-key"
other_secret == "different-secret"
\* the Authority's secret followed by one NUL character (written \\0)
padded_secret == "test-secret-key\\0"
audience == "github-publisher"

NoTime == -1
NoSignature == <<>>
InvalidSignature == <<"invalid-signature">>
NoHash == <<>>
NoneId == <<"NONE", "", "", 0>>
NoReceipt == 0
NoEvidence == << >>

\* the policy the Authority is constructed with
policy ==
  [policy_id |-> "policy-test-v1",
   version |-> "1.0",
   rules |->
     [publish_release |->
        [allowed_repositories |-> << <<"omega", "*">>, <<"marketops", "*">> >>,
         require_evidence |-> << >>],
      tag_repo |->
        [allowed_repositories |-> << <<"omega", "*">> >>,
         require_evidence |->
           << [key |-> "approval_count", op |-> ">=", value |-> 1],
              [key |-> "approval_count", op |-> "<=", value |-> 2] >>,
         rate_limit |-> [per_hour |-> 10]]]]

(***************************************************************************)
(* EnforceableReceipt (federation_core_receipt_generator.py)               *)
(***************************************************************************)
\* the nine fields that sign and verify_signature put in the payload
payload(r) ==
  [receipt_id |-> r.receipt_id,
   run_id |-> r.run_id,
   operation_kind |-> r.operation_kind,
   enforceable |-> r.enforceable,
   issued_at |-> r.issued_at,
   expires_at |-> r.expires_at,
   issuer |-> r.issuer,
   audience |-> r.audience,
   evidence_hash |-> r.evidence_hash]

\* hmac.new fills a key shorter than the 64-byte block of sha256 with NUL
\* bytes: a key and the same key followed by NUL characters are one key
hmac_key(secret) == IF secret = padded_secret THEN fc_secret ELSE secret

\* hmac.new(secret, str(sorted(payload.items())), sha256).hexdigest()
hmac_sha256(secret, p) == <<hmac_key(secret), p>>

sign(r, secret) == [r EXCEPT !.signature = hmac_sha256(secret, payload(r))]

verify_signature(r, secret) ==
  IF r.signature = NoSignature
  THEN FALSE
  ELSE r.signature = hmac_sha256(secret, payload(r))

(***************************************************************************)
(* AuthorizationPolicyValidator                                            *)
(***************************************************************************)
\* fnmatch.fnmatch(text, pattern) for a pattern "a/b/*": the leading parts
\* are literal and the final "*" matches the rest of the text
fnmatch(text, pattern) ==
  /\ Len(text) >= Len(pattern)
  /\ \A i \in 1..(Len(pattern) - 1) : text[i] = pattern[i]

matches_pattern(text, patterns) ==
  \E i \in 1..Len(patterns) :
    IF "*" \in {patterns[i][j] : j \in 1..Len(patterns[i])}
    THEN fnmatch(text, patterns[i])
    ELSE text = patterns[i]

\* only a ">=" requirement on approval_count is ever evaluated
check_evidence_requirements(requirements, evidence) ==
  \A i \in 1..Len(requirements) :
    (requirements[i].op = ">=" /\ requirements[i].key = "approval_count")
      => ~(Len(evidence.approvers) < requirements[i].value)

\* "ok" when validate_operation returns True, else the PolicyViolationError
\* a validator that looks at the evidence before the repository
validate_operation_evidence_first(context, evidence) ==
  IF context.operation_kind \notin DOMAIN policy.rules
  THEN "no_policy_for_kind"
  ELSE LET op_policy == policy.rules[context.operation_kind] IN
       IF /\ "require_evidence" \in DOMAIN op_policy
          /\ ~check_evidence_requirements(op_policy.require_evidence, evidence)
       THEN "evidence_requirement_not_met"
       ELSE IF /\ "allowed_repositories" \in DOMAIN op_policy
               /\ ~matches_pattern(context.repository, op_policy.allowed_repositories)
            THEN "repository_not_allowed"
            ELSE "ok"

validate_operation(context, evidence) ==
  IF context.operation_kind \notin DOMAIN policy.rules
  THEN "no_policy_for_kind"
  ELSE LET op_policy == policy.rules[context.operation_kind] IN
       IF /\ "allowed_repositories" \in DOMAIN op_policy
          /\ ~matches_pattern(context.repository, op_policy.allowed_repositories)
       THEN "repository_not_allowed"
       ELSE IF /\ "require_evidence" \in DOMAIN op_policy
               /\ ~check_evidence_requirements(op_policy.require_evidence, evidence)
            THEN "evidence_requirement_not_met"
            ELSE "ok"

(***************************************************************************)
(* State                                                                   *)
(***************************************************************************)
VARIABLES
  now,              \* datetime.utcnow(), in hours
  heap,             \* the receipt objects created so far
  issued_receipts,  \* ReceiptGenerator.issued_receipts: dict receipt_id -> receipt
  issuance_audit,   \* ReceiptGenerator.issuance_audit
  mint_log,         \* history: one entry per authorize_and_issue_receipt call
  verify_log,       \* history: one entry per verify_and_consume_receipt call
  threads,          \* the concurrent verify_and_consume_receipt calls in progress
  sign_log,         \* history: one entry per sign call made by a caller
  construct_log,    \* history: one entry per GitHubPublisher(...) call
  returned_audit,   \* the list a caller got from get_issuance_audit
  mode,             \* GitHubPublisher.mode
  enable_recovery,  \* GitHubPublisher.enable_recovery
  consumed_receipts,\* ReceiptBindingValidator.consumed_receipts: dict receipt_id -> time
  request_times,    \* RateLimitManager.request_times
  audit_records,    \* GitHubPublisher.audit_records
  call_log,         \* history: one entry per entry-point call that has ended
  start_log,        \* history: one entry per entry-point call, in order of start
  plan_log,         \* history: one entry per authorize_publication_plan call
  steps,            \* EndToEndProofGenerator.steps
  chain_hash,       \* EndToEndProofGenerator.chain_hash
  proof_log         \* history: one entry per record_step or finalize_chain call

authority_vars == <<issued_receipts, issuance_audit, mint_log, verify_log>>

executor_vars ==
  <<mode, enable_recovery, consumed_receipts, request_times, audit_records, call_log>>

\* what the callers hold and the history of what they did
caller_vars == <<sign_log, construct_log, returned_audit>>

proof_vars == <<steps, chain_hash, proof_log>>

\* the bridge's history, the proof generator and the order of call starts
rest_vars == <<start_log, plan_log, proof_vars>>

vars == <<now, heap, authority_vars, threads, caller_vars, executor_vars, rest_vars>>

(***************************************************************************)
(* A Python dict that keeps insertion order: a sequence of [key, value]    *)
(***************************************************************************)
dict_keys(d) == {d[i].key : i \in 1..Len(d)}

dict_get(d, k) == d[CHOOSE i \in 1..Len(d) : d[i].key = k].value

dict_set(d, k, v) ==
  IF k \in dict_keys(d)
  THEN [i \in 1..Len(d) |-> IF d[i].key = k THEN [key |-> k, value |-> v] ELSE d[i]]
  ELSE Append(d, [key |-> k, value |-> v])

(***************************************************************************)
(* ReceiptGenerator                                                        *)
(***************************************************************************)
\* "receipt-" + md5("{run_id}-{operation_kind}-{utcnow}")[:16]
generate_receipt_id(context) ==
  <<"receipt", context.run_id, context.operation_kind, now>>

\* sha256(str(sorted(evidence.to_dict().items())))
hash_evidence(evidence) == <<evidence>>

\* the evidence used when the caller passes approval_evidence = None
default_evidence ==
  [checked_at |-> now,
   policy_id |-> policy.policy_id,
   decision |-> "deferred",
   reason |-> "No evidence provided",
   approvers |-> << >>]

\* the evidence a caller builds, as the bridge does
given_evidence(approvers) ==
  [checked_at |-> now,
   policy_id |-> policy.policy_id,
   decision |-> "approved",
   reason |-> "Approved via batch authorization",
   approvers |-> approvers]

\* the receipt object authorize_and_issue_receipt constructs and signs
new_receipt(context, is_enforceable, evidence) ==
  sign([cls |-> "fc",
        receipt_id |-> generate_receipt_id(context),
        run_id |-> context.run_id,
        operation_kind |-> context.operation_kind,
        enforceable |-> is_enforceable,
        issued_at |-> now,
        expires_at |-> now + RECEIPT_TTL_HOURS,
        issuer |-> fc_id,
        audience |-> audience,
        signature |-> NoSignature,
        evidence_hash |-> hash_evidence(evidence),
        consumed |-> FALSE,
        consumed_at |-> NoTime],
       fc_secret)

\* an enforceable flag that is cleared only when the repository is refused
mint_enforceable_unless_repository(validation) ==
  validation # "repository_not_allowed"

\* the enforceable flag the mint gives a receipt, from the validation outcome
mint_enforceable(validation) == validation = "ok"

\* validate_operation reports every failure as a PolicyViolationError
violation_class(validation) == "PolicyViolationError"

\* an except clause that names UnauthorizedOperationError alone
mint_catches_unauthorized(exception) ==
  exception \in {"UnauthorizedOperationError"}

\* except (PolicyViolationError, UnauthorizedOperationError)
mint_catches(exception) ==
  exception \in {"PolicyViolationError", "UnauthorizedOperationError"}

\* the Authority's records after authorize_and_issue_receipt(context, given)
\* ran on the records st
issue(st, context, given) ==
  LET approval_evidence == IF given = NoEvidence THEN default_evidence ELSE given[1]
      validation == validate_operation(context, approval_evidence)
      is_enforceable == mint_enforceable(validation)
      decision == IF validation = "ok" THEN "approved" ELSE "denied"
      evidence == IF validation = "ok"
                  THEN approval_evidence
                  ELSE [approval_evidence EXCEPT !.reason = validation]
      receipt == new_receipt(context, is_enforceable, evidence)
      obj == Len(st.heap) + 1
  IN IF validation # "ok" /\ ~mint_catches(violation_class(validation))
     THEN \* the exception leaves authorize_and_issue_receipt
          [st EXCEPT !.mint_log = Append(@,
             [obj |-> NoReceipt, context |-> context, validation |-> validation,
              outcome |-> "raised"])]
     ELSE [heap |-> Append(st.heap, receipt),
           issued_receipts |-> dict_set(st.issued_receipts, receipt.receipt_id, obj),
           issuance_audit |-> Append(st.issuance_audit,
             [receipt_id |-> receipt.receipt_id,
              run_id |-> context.run_id,
              operation_kind |-> context.operation_kind,
              enforceable |-> is_enforceable,
              decision |-> decision,
              issued_at |-> now,
              policy_id |-> policy.policy_id]),
           mint_log |-> Append(st.mint_log,
             [obj |-> obj, context |-> context, validation |-> validation,
              outcome |-> "returned"])]

\* the records authorize_and_issue_receipt reads and writes
issuer_records ==
  [heap |-> heap, issued_receipts |-> issued_receipts,
   issuance_audit |-> issuance_audit, mint_log |-> mint_log]

\* the Authority's records become st
issuer_becomes(st) ==
  /\ heap' = st.heap
  /\ issued_receipts' = st.issued_receipts
  /\ issuance_audit' = st.issuance_audit
  /\ mint_log' = st.mint_log

authorize_and_issue_receipt(context, given) ==
  issuer_becomes(issue(issuer_records, context, given))

(***************************************************************************)
(* FederationCoreBridge                                                    *)
(***************************************************************************)
\* OperationKind[text.upper()].value, for a text that names a kind in any case
operation_kind_named(text) ==
  IF text \in {"publish_release", "PUBLISH_RELEASE", "Publish_Release"}
  THEN PUBLISH_RELEASE
  ELSE IF text \in {"tag_repo", "TAG_REPO", "Tag_Repo"}
  THEN TAG_REPO
  ELSE OPEN_PR

\* a result that is ready as soon as one operation was authorized
plan_result_ready_if_any(run_id, operations, receipts, blocked) ==
  [run_id |-> run_id,
   receipts |-> receipts,
   blocked_operations |-> blocked,
   execution_ready |-> Len(receipts) > 0,
   total_operations |-> Len(operations),
   authorized_operations |-> Len(receipts)]

\* the dict authorize_publication_plan returns
plan_result(run_id, operations, receipts, blocked) ==
  [run_id |-> run_id,
   receipts |-> receipts,
   blocked_operations |-> blocked,
   execution_ready |-> Len(blocked) = 0,
   total_operations |-> Len(operations),
   authorized_operations |-> Len(receipts)]

\* the loop over publication_plan["operations"], entered with the remaining
\* operations, the Authority's records st and the receipts and blocked
\* operations collected so far
RECURSIVE plan_loop(_, _, _, _, _, _)
plan_loop(st, run_id, remaining, approvers, receipts, blocked) ==
  IF remaining = << >>
  THEN [st |-> st, receipts |-> receipts, blocked |-> blocked, raised |-> FALSE]
  ELSE LET operation == Head(remaining)
           context == [run_id |-> run_id,
                       operation_kind |-> operation_kind_named(operation.operation_kind),
                       repository |-> operation.repository]
           minted == issue(st, context, <<given_evidence(approvers)>>)
           obj == Len(minted.heap)
       IN IF minted.mint_log[Len(minted.mint_log)].outcome = "raised"
          THEN [st |-> minted, receipts |-> receipts, blocked |-> blocked,
                raised |-> TRUE]
          ELSE IF minted.heap[obj].enforceable
          THEN plan_loop(minted, run_id, Tail(remaining), approvers,
                         dict_set(receipts, operation.operation_id, obj), blocked)
          ELSE plan_loop(minted, run_id, Tail(remaining), approvers, receipts,
                         Append(blocked,
                           [operation_id |-> operation.operation_id,
                            reason |-> "Advisory receipt issued (not enforceable)"]))

\* FederationCoreBridge.authorize_publication_plan(publication_plan,
\* approver_evidence); plan_log keeps the plan and what was returned
authorize_publication_plan(run_id, operations, approvers) ==
  LET done == plan_loop(issuer_records, run_id, operations, approvers, << >>, << >>)
  IN /\ issuer_becomes(done.st)
     /\ plan_log' = Append(plan_log,
          [run_id |-> run_id, operations |-> operations, approvers |-> approvers,
           raised |-> done.raised,
           result |-> IF done.raised THEN << >>
                      ELSE plan_result(run_id, operations, done.receipts, done.blocked)])
     /\ UNCHANGED <<now, verify_log, threads, executor_vars, caller_vars,
                    start_log, proof_vars>>

\* what a caller may do to a receipt before presenting it to the Authority
Tamperings == {"none", "signature", "enforceable"}

tampered(receipt, how) ==
  IF how = "signature"
  THEN [receipt EXCEPT !.signature = InvalidSignature]
  ELSE IF how = "enforceable"
  THEN [receipt EXCEPT !.enforceable = ~receipt.enforceable]
  ELSE receipt

\* verification that looks the receipt_id up before checking the signature
verify_outcome_ledger_first(receipt) ==
  IF receipt.cls # "fc" THEN "AttributeError"
  ELSE IF receipt.receipt_id \notin dict_keys(issued_receipts)
    THEN "not_issued_by_this_fc"
  ELSE IF ~verify_signature(receipt, fc_secret) THEN "invalid_signature"
  ELSE IF heap[dict_get(issued_receipts, receipt.receipt_id)].consumed
    THEN "already_consumed"
  ELSE "ok"

\* verification that goes to the lookup without checking the signature
verify_outcome_unsigned(receipt) ==
  IF receipt.cls # "fc" THEN "AttributeError"
  ELSE IF receipt.receipt_id \notin dict_keys(issued_receipts)
    THEN "not_issued_by_this_fc"
  ELSE IF heap[dict_get(issued_receipts, receipt.receipt_id)].consumed
    THEN "already_consumed"
  ELSE "ok"

\* verification that never looks at the stored receipt's consumed flag
verify_outcome_replayed(receipt) ==
  IF receipt.cls # "fc" THEN "AttributeError"
  ELSE IF ~verify_signature(receipt, fc_secret) THEN "invalid_signature"
  ELSE IF receipt.receipt_id \notin dict_keys(issued_receipts)
    THEN "not_issued_by_this_fc"
  ELSE "ok"

\* the outcome of verify_and_consume_receipt(receipt): "ok", or the check that raised
verify_outcome(receipt) ==
  IF receipt.cls # "fc"
  THEN "AttributeError"
  ELSE IF ~verify_signature(receipt, fc_secret)
       THEN "invalid_signature"
       ELSE IF receipt.receipt_id \notin dict_keys(issued_receipts)
            THEN "not_issued_by_this_fc"
            ELSE IF heap[dict_get(issued_receipts, receipt.receipt_id)].consumed
                 THEN "already_consumed"
                 ELSE "ok"

\* stored.consumed = True; stored.consumed_at = utcnow
consume_stored(h, stored) ==
  [h EXCEPT ![stored].consumed = TRUE, ![stored].consumed_at = now]

\* the caller presents heap[obj], or a copy of it tampered with as `how` says
verify_and_consume_receipt(obj, how) ==
  LET receipt == tampered(heap[obj], how)
      outcome == verify_outcome(receipt)
  IN /\ heap' = IF outcome = "ok"
                THEN consume_stored(heap, dict_get(issued_receipts, receipt.receipt_id))
                ELSE heap
     /\ verify_log' = Append(verify_log,
          [obj |-> obj, how |-> how, receipt_id |-> receipt.receipt_id,
           outcome |-> outcome])
     /\ UNCHANGED <<issued_receipts, issuance_audit, mint_log>>

(***************************************************************************)
(* ReceiptBindingValidator                                                 *)
(***************************************************************************)
\* binding validation that calls a receipt stale from the age limit on
validate_binding_stale_at_limit(receipt, expected_run_id, expected_operation) ==
  IF receipt.run_id # expected_run_id THEN "cross_run_replay"
  ELSE IF receipt.operation_kind # expected_operation THEN "cross_operation_replay"
  ELSE IF ~receipt.enforceable THEN "advisory_rejected"
  ELSE IF receipt.consumed THEN "already_consumed_replay"
  ELSE IF now > receipt.expires_at THEN "expired"
  ELSE IF now - receipt.issued_at >= MAX_RECEIPT_AGE_HOURS THEN "stale"
  ELSE "ok"

\* binding validation that never looks at the enforceable flag
validate_binding_any_flag(receipt, expected_run_id, expected_operation) ==
  IF receipt.run_id # expected_run_id THEN "cross_run_replay"
  ELSE IF receipt.operation_kind # expected_operation THEN "cross_operation_replay"
  ELSE IF receipt.consumed THEN "already_consumed_replay"
  ELSE IF now > receipt.expires_at THEN "expired"
  ELSE IF now - receipt.issued_at > MAX_RECEIPT_AGE_HOURS THEN "stale"
  ELSE "ok"

\* binding validation that never compares the run_id
validate_binding_any_run(receipt, expected_run_id, expected_operation) ==
  IF receipt.operation_kind # expected_operation THEN "cross_operation_replay"
  ELSE IF ~receipt.enforceable THEN "advisory_rejected"
  ELSE IF receipt.consumed THEN "already_consumed_replay"
  ELSE IF now > receipt.expires_at THEN "expired"
  ELSE IF now - receipt.issued_at > MAX_RECEIPT_AGE_HOURS THEN "stale"
  ELSE "ok"

\* binding validation that looks at the age before the expiry
validate_binding_stale_first(receipt, expected_run_id, expected_operation) ==
  IF receipt.run_id # expected_run_id THEN "cross_run_replay"
  ELSE IF receipt.operation_kind # expected_operation THEN "cross_operation_replay"
  ELSE IF ~receipt.enforceable THEN "advisory_rejected"
  ELSE IF receipt.consumed THEN "already_consumed_replay"
  ELSE IF now - receipt.issued_at > MAX_RECEIPT_AGE_HOURS THEN "stale"
  ELSE IF now > receipt.expires_at THEN "expired"
  ELSE "ok"

\* "ok" when validate_binding returns True, else the check that raised
validate_binding(receipt, expected_run_id, expected_operation) ==
  IF receipt.run_id # expected_run_id
  THEN "cross_run_replay"
  ELSE IF receipt.operation_kind # expected_operation
  THEN "cross_operation_replay"
  ELSE IF ~receipt.enforceable
  THEN "advisory_rejected"
  ELSE IF receipt.consumed
  THEN "already_consumed_replay"
  ELSE IF now > receipt.expires_at
  THEN "expired"
  ELSE IF now - receipt.issued_at > MAX_RECEIPT_AGE_HOURS
  THEN "stale"
  ELSE "ok"

(***************************************************************************)
(* RateLimitManager                                                        *)
(***************************************************************************)
\* request_times after can_make_request dropped the entries not newer than an hour
pruned_request_times ==
  SelectSeq(request_times, LAMBDA t : t > now - 1)

\* a limiter that never drops old request times
can_make_request_unpruned == Len(request_times) < requests_per_hour

can_make_request == Len(pruned_request_times) < requests_per_hour

(***************************************************************************)
(* RecoveryStrategy                                                        *)
(***************************************************************************)
transient_errors == {"timeout", "connection_error", "rate_limited", "service_unavailable"}

\* a strategy that retries a transient error however many attempts were made
should_retry_without_limit(error_code, attempt) == error_code \in transient_errors

\* a strategy that retries whatever the error is
should_retry_any_error(error_code, attempt) == attempt < MAX_RETRIES

should_retry(error_code, attempt) ==
  IF attempt >= MAX_RETRIES
  THEN FALSE
  ELSE error_code \in transient_errors

(***************************************************************************)
(* GitHubPublisher                                                         *)
(***************************************************************************)
\* _validate_authorization: "ok" or the ReceiptValidationError raised
validate_authorization(obj, run_id, operation_kind) ==
  IF obj = NoReceipt
  THEN "no_receipt"
  ELSE validate_binding(heap[obj], run_id, operation_kind)

\* What the platform client does on its n-th invocation within one call: the
\* client is an external collaborator, `script` lists its answers ("ok" or the
\* text of the exception it raises); the last answer repeats.
platform_answer(script, n) ==
  IF n <= Len(script) THEN script[n] ELSE script[Len(script)]

\* the audit status the except clause gives an exception of type error_code
except_status(error_code) ==
  IF error_code \notin {"ModeViolationError", "ReceiptValidationError"}
  THEN "failed"
  ELSE "rejected_by_auth"

\* receipt.mark_consumed() exists only on the publisher's own receipt class
has_mark_consumed(receipt) == receipt.cls = "pub"

\* The outcome of the steps after the platform client returned a result:
\* record_request(), receipt.mark_consumed(), validator.mark_consumed(), audit.
after_platform_ok(receipt, attempt, invocations) ==
  IF has_mark_consumed(receipt)
  THEN [status |-> "success", error_code |-> "", error_message |-> "",
        retry_count |-> attempt, invocations |-> invocations,
        effect |-> TRUE, recorded |-> TRUE, consumed |-> TRUE]
  ELSE [status |-> except_status("AttributeError"), error_code |-> "AttributeError",
        error_message |-> "no attribute mark_consumed",
        retry_count |-> 0, invocations |-> invocations,
        effect |-> TRUE, recorded |-> TRUE, consumed |-> FALSE]

platform_failed(answer, invocations) ==
  [status |-> except_status("Exception"), error_code |-> "Exception", error_message |-> answer,
   retry_count |-> 0, invocations |-> invocations,
   effect |-> FALSE, recorded |-> FALSE, consumed |-> FALSE]

\* publish_release's loop "while attempt <= MAX_RETRIES", entered with
\* `attempt` and after `invocations` invocations of client.create_release
RECURSIVE release_loop(_, _, _, _)
release_loop(receipt, script, attempt, invocations) ==
  LET answer == platform_answer(script, invocations + 1) IN
  IF attempt > MAX_RETRIES
  THEN [status |-> "returned_none", error_code |-> "", error_message |-> "",
        retry_count |-> attempt, invocations |-> invocations,
        effect |-> FALSE, recorded |-> FALSE, consumed |-> FALSE]
  ELSE IF answer = "ok"
  THEN after_platform_ok(receipt, attempt, invocations + 1)
  ELSE IF enable_recovery /\ should_retry(answer, attempt)
  THEN release_loop(receipt, script, attempt + 1, invocations + 1)
  ELSE platform_failed(answer, invocations + 1)

\* tag_repo and open_pr invoke the client once, with no retry
single_attempt(receipt, script) ==
  LET answer == platform_answer(script, 1) IN
  IF answer = "ok"
  THEN after_platform_ok(receipt, 0, 1)
  ELSE platform_failed(answer, 1)

rejected(status, error_code, error_message) ==
  [status |-> status, error_code |-> error_code, error_message |-> error_message,
   retry_count |-> 0, invocations |-> 0,
   effect |-> FALSE, recorded |-> FALSE, consumed |-> FALSE]

\* the mode strings a caller may pass to GitHubPublisher(...)
ModeStrings == {"prod", "dry_run", "PROD", "Prod", "production", ""}

\* no GitHubPublisher has been constructed
NoExecutor == "no executor"

\* a constructor that compares the mode without regard to case
mode_accepted_any_case(text) == text \in PublisherMode \cup {"PROD", "Prod"}

\* self.mode in [PublisherMode.PROD.value, PublisherMode.DRY_RUN.value]
mode_accepted(text) == text \in PublisherMode

\* the construct_log entry of a constructor call that returned
constructed(text) == [mode |-> text, raised |-> FALSE]

\* GitHubPublisher.__init__(token, mode): the components start empty
construct(text) ==
  /\ mode = NoExecutor
  /\ IF mode_accepted(text)
     THEN /\ mode' = text
          /\ construct_log' = Append(construct_log, constructed(text))
     ELSE /\ mode' = mode
          /\ construct_log' = Append(construct_log, [mode |-> text, raised |-> TRUE])
  /\ enable_recovery' = TRUE
  /\ consumed_receipts' = << >>
  /\ request_times' = << >>
  /\ audit_records' = << >>
  /\ UNCHANGED <<now, heap, authority_vars, threads, sign_log, returned_audit, call_log, rest_vars>>

\* mode gate of an Executor that lets every mode through
mode_gate_passes_any == mode \in PublisherMode

\* the mode gate at the head of every entry point
mode_gate_passes == mode = PROD

\* an entry point that looks at the receipt before the mode
call_outcome_receipt_first(operation_kind, run_id, obj, repository, script) ==
  LET authorization == validate_authorization(obj, run_id, operation_kind) IN
  IF authorization # "ok"
  THEN rejected(except_status("ReceiptValidationError"), "ReceiptValidationError",
                authorization)
  ELSE IF ~mode_gate_passes
  THEN rejected(except_status("ModeViolationError"), "ModeViolationError", "mode_violation")
  ELSE IF ~can_make_request
  THEN rejected(except_status("Exception"), "Exception", "Rate limited")
  ELSE IF Len(repository) # 2
  THEN rejected(except_status("ValueError"), "ValueError", "bad_repository")
  ELSE IF operation_kind = PUBLISH_RELEASE
  THEN release_loop(heap[obj], script, 0, 0)
  ELSE single_attempt(heap[obj], script)

\* The outcome of one entry-point call: the body of the try block, then the
\* except clause that turns the exception into an audit status.
call_outcome(operation_kind, run_id, obj, repository, script) ==
  LET authorization == validate_authorization(obj, run_id, operation_kind) IN
  IF ~mode_gate_passes
  THEN rejected(except_status("ModeViolationError"), "ModeViolationError", "mode_violation")
  ELSE IF authorization # "ok"
  THEN rejected(except_status("ReceiptValidationError"), "ReceiptValidationError",
                authorization)
  ELSE IF ~can_make_request
  THEN rejected(except_status("Exception"), "Exception", "Rate limited")
  ELSE IF Len(repository) # 2
  THEN rejected(except_status("ValueError"), "ValueError", "bad_repository")
  ELSE IF operation_kind = PUBLISH_RELEASE
  THEN release_loop(heap[obj], script, 0, 0)
  ELSE single_attempt(heap[obj], script)

\* EnforceableReceipt.mark_consumed (github_publisher_phase2.py)
mark_consumed(h, obj) ==
  [h EXCEPT ![obj].consumed = TRUE, ![obj].consumed_at = now]

presented_id(obj) == IF obj = NoReceipt THEN NoneId ELSE heap[obj].receipt_id

operation_prefix(operation_kind) ==
  IF operation_kind = PUBLISH_RELEASE THEN "pub-release"
  ELSE IF operation_kind = TAG_REPO THEN "tag-repo"
  ELSE "open-pr"

\* the OperationAuditRecord appended by the success path or by the except clause
\* (started_at and completed_at are left out: nothing reads them)
audit_record(operation_kind, run_id, obj, repository, out) ==
  [operation_id |-> <<operation_prefix(operation_kind), run_id>>,
   run_id |-> run_id,
   operation_kind |-> operation_kind,
   receipt_id |-> presented_id(obj),
   repository |-> repository,
   status |-> out.status,
   mode |-> mode,
   has_result |-> (out.status = "success"),
   error_code |-> out.error_code,
   error_message |-> out.error_message,
   retry_count |-> out.retry_count]

\* an Executor whose refusals leave the entry point before the audit is written
audited_unless_rejected(out) ==
  out.status \notin {"returned_none", "rejected_by_auth"}

\* the success path and the except clause each append one record; only a
\* loop that ends without returning or raising would append none
audited(out) == out.status # "returned_none"

\* what a call that ends with outcome out leaves in the executor: the request
\* time, the consumed receipt_id, the audit record
executor_effect(operation_kind, run_id, obj, repository, out, window) ==
  /\ request_times' = IF out.recorded THEN Append(window, now) ELSE window
  /\ consumed_receipts' = IF out.consumed
                          THEN dict_set(consumed_receipts, heap[obj].receipt_id, now)
                          ELSE consumed_receipts
  /\ audit_records' = IF audited(out)
                      THEN Append(audit_records,
                             audit_record(operation_kind, run_id, obj, repository, out))
                      ELSE audit_records
  /\ call_log' = Append(call_log,
       [operation_kind |-> operation_kind, run_id |-> run_id, obj |-> obj,
        returned |-> (out.status = "success"),
        status |-> out.status, error_code |-> out.error_code,
        error_message |-> out.error_message,
        invocations |-> out.invocations, effect |-> out.effect,
        audit |-> IF audited(out) THEN Len(audit_records) + 1 ELSE 0])

\* what the call leaves in the executor and on the receipt it was given
entry_effect(operation_kind, run_id, obj, repository, out, window) ==
  /\ heap' = IF out.consumed THEN mark_consumed(heap, obj) ELSE heap
  /\ executor_effect(operation_kind, run_id, obj, repository, out, window)

\* the checks of the try block that come before the platform is invoked
admitted(operation_kind, run_id, obj, repository) ==
  /\ mode_gate_passes
  /\ validate_authorization(obj, run_id, operation_kind) = "ok"
  /\ can_make_request
  /\ Len(repository) = 2

\* one whole call of the entry point for operation_kind
entry_point(operation_kind, run_id, obj, repository, script) ==
  LET out == call_outcome(operation_kind, run_id, obj, repository, script)
      rate_checked == mode_gate_passes
                      /\ validate_authorization(obj, run_id, operation_kind) = "ok"
      window == IF rate_checked THEN pruned_request_times ELSE request_times
  IN /\ mode # NoExecutor
     /\ entry_effect(operation_kind, run_id, obj, repository, out, window)
     /\ UNCHANGED <<now, mode, enable_recovery, authority_vars, threads, caller_vars, rest_vars>>

\* the start_log entry of a call: audit is the position of its audit record,
\* 0 while the platform has not answered
started_call(operation_kind, run_id, obj, repository, script, running, audit) ==
  [operation_kind |-> operation_kind, run_id |-> run_id, obj |-> obj,
   repository |-> repository, script |-> script, running |-> running,
   audit |-> audit]

\* A call of an entry point by one of several callers of the same Executor
\* starts: operation_id and started_at are taken and the checks run.  A call
\* that is refused ends here with its audit record; an admitted call has
\* pruned the rate window and waits for the platform.
begin_call(operation_kind, run_id, obj, repository, script) ==
  LET out == call_outcome(operation_kind, run_id, obj, repository, script) IN
  /\ mode # NoExecutor
  /\ IF admitted(operation_kind, run_id, obj, repository)
     THEN /\ request_times' = pruned_request_times
          /\ start_log' = Append(start_log,
               started_call(operation_kind, run_id, obj, repository, script, TRUE, 0))
          /\ UNCHANGED <<heap, consumed_receipts, audit_records, call_log>>
     ELSE /\ entry_effect(operation_kind, run_id, obj, repository, out,
                          IF mode_gate_passes
                             /\ validate_authorization(obj, run_id, operation_kind) = "ok"
                          THEN pruned_request_times ELSE request_times)
          /\ start_log' = Append(start_log,
               started_call(operation_kind, run_id, obj, repository, script, FALSE,
                            IF audited(out) THEN Len(audit_records) + 1 ELSE 0))
  /\ UNCHANGED <<now, mode, enable_recovery, authority_vars, threads, caller_vars,
                 plan_log, proof_vars>>

\* The platform has answered the k-th started call: the rest of the try block
\* (record_request, mark_consumed, the audit record) or its except clause.
finish_call(k) ==
  LET call == start_log[k]
      out == IF call.operation_kind = PUBLISH_RELEASE
             THEN release_loop(heap[call.obj], call.script, 0, 0)
             ELSE single_attempt(heap[call.obj], call.script)
  IN /\ call.running
     /\ entry_effect(call.operation_kind, call.run_id, call.obj, call.repository, out,
                     request_times)
     /\ start_log' = [start_log EXCEPT
          ![k].running = FALSE,
          ![k].audit = IF audited(out) THEN Len(audit_records) + 1 ELSE 0]
     /\ UNCHANGED <<now, mode, enable_recovery, authority_vars, threads, caller_vars,
                    plan_log, proof_vars>>

publish_release(run_id, obj, repository, script) ==
  entry_point(PUBLISH_RELEASE, run_id, obj, repository, script)

tag_repo(run_id, obj, repository, script) ==
  entry_point(TAG_REPO, run_id, obj, repository, script)

open_pr(run_id, obj, repository, script) ==
  entry_point(OPEN_PR, run_id, obj, repository, script)

\* FederationCoreBridge.execute_with_authorization(operation, receipt): the
\* check of the enforceable flag, the entry point of the operation's kind,
\* then the Authority's verify_and_consume_receipt if the entry point
\* returned; plan_log keeps what the bridge call did.
execute_with_authorization(kind_text, run_id, obj, repository, script) ==
  LET operation_kind == operation_kind_named(kind_text)
      out == call_outcome(operation_kind, run_id, obj, repository, script)
      rate_checked == mode_gate_passes
                      /\ validate_authorization(obj, run_id, operation_kind) = "ok"
      window == IF rate_checked THEN pruned_request_times ELSE request_times
      after_call == IF out.consumed THEN mark_consumed(heap, obj) ELSE heap
      verified == IF out.status = "success"
                  THEN verify_outcome(after_call[obj])
                  ELSE "not_called"
      done(raised, entry_calls) ==
        [call |-> "execute_with_authorization", operation_kind |-> operation_kind,
         run_id |-> run_id, obj |-> obj, raised |-> raised,
         entry_calls |-> entry_calls, verified |-> verified,
         returned |-> (raised = "")]
  IN /\ mode # NoExecutor
     /\ IF ~heap[obj].enforceable
        THEN /\ plan_log' = Append(plan_log, done("UnauthorizedOperationError", 0))
             /\ UNCHANGED <<heap, verify_log, consumed_receipts, request_times,
                            audit_records, call_log>>
        ELSE /\ executor_effect(operation_kind, run_id, obj, repository, out, window)
             /\ heap' = IF verified = "ok"
                        THEN consume_stored(after_call,
                               dict_get(issued_receipts, after_call[obj].receipt_id))
                        ELSE after_call
             /\ verify_log' = IF verified = "not_called"
                              THEN verify_log
                              ELSE Append(verify_log,
                                     [obj |-> obj, how |-> "none",
                                      receipt_id |-> heap[obj].receipt_id,
                                      outcome |-> verified])
             /\ plan_log' = Append(plan_log,
                  done(IF out.status # "success" THEN out.error_code
                       ELSE IF verified # "ok" THEN verified ELSE "", 1))
     /\ UNCHANGED <<now, mode, enable_recovery, issued_receipts, issuance_audit, mint_log,
                    threads, caller_vars, start_log, proof_vars>>

(***************************************************************************)
(* verify_and_consume_receipt, statement by statement: the calls of        *)
(* concurrent callers interleave between its checks and its write          *)
(***************************************************************************)
Threads == {"t1", "t2"}

idle_thread == [pc |-> "idle", obj |-> NoReceipt, how |-> "none",
                stored |-> NoReceipt, outcome |-> ""]

idle_threads == [t \in Threads |-> idle_thread]

\* the receipt the thread was called with
thread_receipt(t) == tampered(heap[threads[t].obj], threads[t].how)

thread_finish(t, outcome) ==
  /\ threads' = [threads EXCEPT ![t].pc = "done", ![t].outcome = outcome]
  /\ verify_log' = Append(verify_log,
       [obj |-> threads[t].obj, how |-> threads[t].how,
        receipt_id |-> thread_receipt(t).receipt_id, outcome |-> outcome])

\* the call starts
verify_begin(t, obj, how) ==
  /\ threads[t].pc = "idle"
  /\ threads' = [threads EXCEPT ![t] =
       [idle_thread EXCEPT !.pc = "check_signature", !.obj = obj, !.how = how]]
  /\ UNCHANGED <<now, heap, authority_vars, executor_vars, caller_vars, rest_vars>>

\* Check 1: if not receipt.verify_signature(self.fc_secret): raise
verify_check_signature(t) ==
  /\ threads[t].pc = "check_signature"
  /\ IF verify_signature(thread_receipt(t), fc_secret)
     THEN threads' = [threads EXCEPT ![t].pc = "lookup"] /\ UNCHANGED verify_log
     ELSE thread_finish(t, "invalid_signature")
  /\ UNCHANGED <<now, heap, issued_receipts, issuance_audit, mint_log, executor_vars,
               caller_vars, rest_vars>>

\* Check 2: if receipt.receipt_id not in self.issued_receipts: raise;
\* stored = self.issued_receipts[receipt.receipt_id]
verify_lookup(t) ==
  /\ threads[t].pc = "lookup"
  /\ IF thread_receipt(t).receipt_id \in dict_keys(issued_receipts)
     THEN /\ threads' = [threads EXCEPT
               ![t].pc = "check_consumed",
               ![t].stored = dict_get(issued_receipts, thread_receipt(t).receipt_id)]
          /\ UNCHANGED verify_log
     ELSE thread_finish(t, "not_issued_by_this_fc")
  /\ UNCHANGED <<now, heap, issued_receipts, issuance_audit, mint_log, executor_vars,
               caller_vars, rest_vars>>

\* Check 3: if stored.consumed: raise
verify_check_consumed(t) ==
  /\ threads[t].pc = "check_consumed"
  /\ IF heap[threads[t].stored].consumed
     THEN thread_finish(t, "already_consumed")
     ELSE threads' = [threads EXCEPT ![t].pc = "write"] /\ UNCHANGED verify_log
  /\ UNCHANGED <<now, heap, issued_receipts, issuance_audit, mint_log, executor_vars,
               caller_vars, rest_vars>>

\* stored.consumed = True; stored.consumed_at = utcnow; return True
verify_write(t) ==
  /\ threads[t].pc = "write"
  /\ heap' = consume_stored(heap, threads[t].stored)
  /\ thread_finish(t, "ok")
  /\ UNCHANGED <<now, issued_receipts, issuance_audit, mint_log, executor_vars,
                 caller_vars, rest_vars>>

(***************************************************************************)
(* Callers                                                                 *)
(***************************************************************************)
\* a caller builds a publisher-class receipt by hand, as the publisher's
\* tests do (_make_valid_receipt, _make_advisory_receipt)
make_receipt(run_id, operation_kind, is_enforceable) ==
  /\ heap' = Append(heap,
       [cls |-> "pub",
        receipt_id |-> <<IF is_enforceable THEN "receipt" ELSE "advisory",
                         run_id, operation_kind, -1>>,
        run_id |-> run_id,
        operation_kind |-> operation_kind,
        enforceable |-> is_enforceable,
        issued_at |-> now,
        expires_at |-> now + RECEIPT_TTL_HOURS,
        issuer |-> "",
        audience |-> "",
        signature |-> NoSignature,
        evidence_hash |-> NoHash,
        consumed |-> FALSE,
        consumed_at |-> NoTime])
  /\ UNCHANGED <<now, authority_vars, threads, executor_vars, caller_vars, rest_vars>>

\* a caller builds an enforceable publisher-class receipt with timestamps of
\* its choosing, as test_expired_receipt_rejected and
\* test_stale_receipt_rejected do
make_aged_receipt(run_id, operation_kind, issued_ago, expires_in) ==
  /\ heap' = Append(heap,
       [cls |-> "pub",
        receipt_id |-> <<"aged", run_id, operation_kind, Len(heap)>>,
        run_id |-> run_id,
        operation_kind |-> operation_kind,
        enforceable |-> TRUE,
        issued_at |-> now - issued_ago,
        expires_at |-> now + expires_in,
        issuer |-> "",
        audience |-> "",
        signature |-> NoSignature,
        evidence_hash |-> NoHash,
        consumed |-> FALSE,
        consumed_at |-> NoTime])
  /\ UNCHANGED <<now, authority_vars, threads, executor_vars, caller_vars, rest_vars>>

\* a caller builds a publisher-class receipt with every field of its
\* choosing: EnforceableReceipt(receipt_id, run_id, operation_kind,
\* enforceable, issued_at, expires_at, consumed, consumed_at)
build_receipt(run_id, operation_kind, is_enforceable, is_consumed, issued_ago, expires_in) ==
  /\ heap' = Append(heap,
       [cls |-> "pub",
        receipt_id |-> <<"built", run_id, operation_kind, Len(heap)>>,
        run_id |-> run_id,
        operation_kind |-> operation_kind,
        enforceable |-> is_enforceable,
        issued_at |-> now - issued_ago,
        expires_at |-> now + expires_in,
        issuer |-> "",
        audience |-> "",
        signature |-> NoSignature,
        evidence_hash |-> NoHash,
        consumed |-> is_consumed,
        consumed_at |-> IF is_consumed THEN now - issued_ago ELSE NoTime])
  /\ UNCHANGED <<now, authority_vars, threads, executor_vars, caller_vars, rest_vars>>

\* the receipt_id of a receipt made outside the Authority
ForgedId == <<"forged-receipt">>

\* an Authority-class receipt built by a caller, not yet signed
handmade_receipt ==
  [cls |-> "fc",
   receipt_id |-> ForgedId,
   run_id |-> "r-1",
   operation_kind |-> PUBLISH_RELEASE,
   enforceable |-> TRUE,
   issued_at |-> now,
   expires_at |-> now + RECEIPT_TTL_HOURS,
   issuer |-> "federation-core",
   audience |-> "github-publisher",
   signature |-> NoSignature,
   evidence_hash |-> NoHash,
   consumed |-> FALSE,
   consumed_at |-> NoTime]

\* a caller builds an Authority-class receipt itself and signs it, as
\* test_forged_receipt_rejected does
forge_receipt(secret) ==
  /\ heap' = Append(heap, sign(handmade_receipt, secret))
  /\ UNCHANGED <<now, authority_vars, threads, executor_vars, caller_vars, rest_vars>>

\* a caller constructs an Authority-class receipt and leaves it unsigned
construct_receipt ==
  /\ heap' = Append(heap, handmade_receipt)
  /\ UNCHANGED <<now, authority_vars, threads, executor_vars, caller_vars, rest_vars>>

\* receipt.sign(secret); sign_log keeps the secret and the payload signed
sign_receipt(obj, secret) ==
  /\ heap[obj].cls = "fc"
  /\ heap' = [heap EXCEPT ![obj] = sign(@, secret)]
  /\ sign_log' = Append(sign_log,
       [op |-> "sign", obj |-> obj, secret |-> secret,
        payload |-> payload(heap[obj])])
  /\ UNCHANGED <<now, authority_vars, threads, executor_vars,
                 construct_log, returned_audit, rest_vars>>

\* the value a caller assigns to each attribute of a receipt
Alterations ==
  [receipt_id |-> <<"another-receipt">>,
   run_id |-> "r-2",
   operation_kind |-> TAG_REPO,
   enforceable |-> FALSE,
   issued_at |-> 1,
   expires_at |-> 2,
   issuer |-> "another-issuer",
   audience |-> "another-audience",
   evidence_hash |-> <<"another-evidence">>,
   consumed |-> TRUE,
   consumed_at |-> 0]

\* setattr(receipt, field, value) on a dataclass that is not frozen
set_field(obj, field) ==
  /\ heap[obj].cls = "fc"
  /\ heap' = [heap EXCEPT ![obj] = [@ EXCEPT ![field] = Alterations[field]]]
  /\ sign_log' = Append(sign_log,
       [op |-> "set", obj |-> obj, secret |-> field,
        payload |-> payload(heap[obj])])
  /\ UNCHANGED <<now, authority_vars, threads, executor_vars,
                 construct_log, returned_audit, rest_vars>>

\* an element of the caller's list that is not an entry of the ledger
NoEntry == 0

\* audit = generator.get_issuance_audit(): self.issuance_audit.copy() is a new
\* list whose elements are the ledger's own entry dicts; returned_audit
\* holds, for each element, the position of that entry in the ledger
get_issuance_audit ==
  /\ returned_audit' = [k \in 1..Len(issuance_audit) |-> k]
  /\ UNCHANGED <<now, heap, authority_vars, threads, executor_vars,
                 sign_log, construct_log, rest_vars>>

\* audit.pop()
returned_pop ==
  /\ returned_audit # << >>
  /\ returned_audit' = SubSeq(returned_audit, 1, Len(returned_audit) - 1)
  /\ UNCHANGED <<now, heap, authority_vars, threads, executor_vars,
                 sign_log, construct_log, rest_vars>>

\* audit.reverse()
returned_reverse ==
  /\ returned_audit' = [k \in 1..Len(returned_audit) |->
                          returned_audit[Len(returned_audit) + 1 - k]]
  /\ UNCHANGED <<now, heap, authority_vars, threads, executor_vars,
                 sign_log, construct_log, rest_vars>>

\* audit[k] = {}
returned_replace(k) ==
  /\ returned_audit' = [returned_audit EXCEPT ![k] = NoEntry]
  /\ UNCHANGED <<now, heap, authority_vars, threads, executor_vars,
                 sign_log, construct_log, rest_vars>>

\* audit[k]["enforceable"] = True: the dict is the ledger's own entry
returned_rewrite(k) ==
  /\ returned_audit[k] # NoEntry
  /\ issuance_audit' =
       [issuance_audit EXCEPT ![returned_audit[k]].enforceable = TRUE]
  /\ UNCHANGED <<now, heap, issued_receipts, mint_log, verify_log, threads,
                 executor_vars, caller_vars, rest_vars>>

(***************************************************************************)
(* EndToEndProofGenerator (END_TO_END_PROOF_GENERATOR.py)                  *)
(***************************************************************************)
\* EndToEndProofGenerator(secret_key="proof-secret-key")
proof_secret_key == "proof-secret-key"

\* datetime.utcnow().isoformat() + "Z": the text of a time has colons in it
timestamp_text(time) == <<"T", ToString(time), ":", "00", ":", "00Z">>

\* _hash_data: sha256(json.dumps(data, sort_keys=True, default=str)) in hex
hash_data(data) == <<"sha256", data>>

\* f"{step_id}:{timestamp}:{actor}:{input_hash}:{output_hash}"; a text is
\* the sequence of its parts
step_data(step) ==
  step.step_id \o <<":">> \o step.timestamp \o <<":">> \o step.actor
    \o <<":">> \o step.input_hash \o <<":">> \o step.output_hash

\* _sign_step
sign_step(data) == hmac_sha256(proof_secret_key, data)

\* the signature of a step is the one record_step computes from its fields
step_verifies(step) == step.signature = sign_step(step_data(step))

\* record_step(step_id, actor, description, input_data, output_data)
record_step(step_id, actor, description, input_data, output_data) ==
  LET unsigned == [step_id |-> step_id,
                   timestamp |-> timestamp_text(now),
                   description |-> description,
                   actor |-> actor,
                   input_hash |-> hash_data(input_data),
                   output_hash |-> hash_data(output_data)]
      step == [field \in DOMAIN unsigned \cup {"signature"} |->
                 IF field = "signature" THEN sign_step(step_data(unsigned))
                 ELSE unsigned[field]]
  IN /\ steps' = Append(steps, step)
     /\ proof_log' = Append(proof_log,
          [call |-> "record_step", step |-> step, result |-> << >>])
     /\ UNCHANGED <<now, heap, authority_vars, threads, executor_vars, caller_vars,
                    start_log, plan_log, chain_hash>>

\* a chain hash that does not depend on the order of the steps
chain_digest_unordered(step_list) ==
  <<"sha256", {step_list[k] : k \in 1..Len(step_list)}>>

\* sha256(json.dumps([s.to_dict() for s in steps], sort_keys=True)) in hex
chain_digest(step_list) == <<"sha256", step_list>>

\* finalize_chain(); "proof-" + chain_hash[:16] is written <<"proof", chain_hash>>
finalize_chain ==
  /\ chain_hash' = chain_digest(steps)
  /\ proof_log' = Append(proof_log,
       [call |-> "finalize_chain", step |-> << >>,
        result |-> [proof_id |-> <<"proof", chain_digest(steps)>>,
                    generated_at |-> timestamp_text(now),
                    total_steps |-> Len(steps),
                    chain_hash |-> chain_digest(steps),
                    steps |-> steps]])
  /\ UNCHANGED <<now, heap, authority_vars, threads, executor_vars, caller_vars,
                 start_log, plan_log, steps>>

\* a caller exchanges steps k and k + 1 of proof_gen.steps
swap_steps(k) ==
  /\ steps[k] # steps[k + 1]
  /\ steps' = [steps EXCEPT ![k] = steps[k + 1], ![k + 1] = steps[k]]
  /\ UNCHANGED <<now, heap, authority_vars, threads, executor_vars, caller_vars,
                 start_log, plan_log, chain_hash, proof_log>>

\* the value a caller writes over each field of a recorded step
StepAlterations ==
  [step_id |-> <<"step-0">>,
   timestamp |-> <<"T", "-1", ":", "00", ":", "00Z">>,
   description |-> "rewritten",
   actor |-> <<"Somebody">>,
   input_hash |-> hash_data("forged input"),
   output_hash |-> hash_data("forged output")]

\* a caller assigns to one field of step k of proof_gen.steps
tamper_step(k, field) ==
  /\ steps' = [steps EXCEPT ![k] = [@ EXCEPT ![field] = StepAlterations[field]]]
  /\ UNCHANGED <<now, heap, authority_vars, threads, executor_vars, caller_vars,
                 start_log, plan_log, chain_hash, proof_log>>

Mint(context, given) ==
  /\ authorize_and_issue_receipt(context, given)
  /\ UNCHANGED <<now, verify_log, threads, executor_vars, caller_vars, rest_vars>>

Verify(obj, how) ==
  /\ verify_and_consume_receipt(obj, how)
  /\ UNCHANGED <<now, threads, executor_vars, caller_vars, rest_vars>>

Tick ==
  /\ now < MaxTime
  /\ now' = now + 1
  /\ UNCHANGED <<heap, authority_vars, threads, executor_vars, caller_vars, rest_vars>>

(***************************************************************************)
(* Inputs                                                                  *)
(***************************************************************************)
request(run_id, operation_kind, repository) ==
  [run_id |-> run_id, operation_kind |-> operation_kind, repository |-> repository]

one_approver == <<given_evidence(<<"approver-1">>)>>

\* the requests put to the Authority: repository not allowed, approved on
\* evidence, evidence requirement not met, no policy for the kind
MintRequests ==
  {<<request("r-1", PUBLISH_RELEASE, RandomX), NoEvidence>>,
   <<request("r-1", TAG_REPO, OmegaApp), one_approver>>,
   <<request("r-1", TAG_REPO, OmegaApp), NoEvidence>>,
   <<request("r-2", OPEN_PR, OmegaApp), one_approver>>}

\* the requests whose receipts are then presented to the Executor
ExecutorRequests ==
  {<<request("r-1", PUBLISH_RELEASE, OmegaApp), NoEvidence>>,
   <<request("r-1", PUBLISH_RELEASE, RandomX), NoEvidence>>}

\* the receipts callers build by hand: (operation_kind, enforceable)
HandMade ==
  {<<PUBLISH_RELEASE, TRUE>>, <<TAG_REPO, TRUE>>, <<OPEN_PR, TRUE>>,
   <<PUBLISH_RELEASE, FALSE>>}

PlatformScripts == {<<"ok">>, <<"timeout", "ok">>, <<"not_found">>}

\* the (run_id, receipt) pairs of a call: any receipt held under either
\* run_id, or no receipt at all
Presentations == (RunIds \X (1..Len(heap))) \cup {<<"r-1", NoReceipt>>}

(***************************************************************************)
(* Specification: the Executor and the callers that present receipts to    *)
(* it, minted by the Authority or built by hand                            *)
(***************************************************************************)
Init ==
  /\ now = 0
  /\ heap = << >>
  /\ issued_receipts = << >>
  /\ issuance_audit = << >>
  /\ mint_log = << >>
  /\ verify_log = << >>
  /\ threads = idle_threads
  /\ sign_log = << >>
  /\ construct_log = <<constructed(PROD)>>
  /\ returned_audit = << >>
  /\ mode = PROD
  /\ enable_recovery = TRUE
  /\ consumed_receipts = << >>
  /\ request_times = << >>
  /\ audit_records = << >>
  /\ call_log = << >>
  /\ start_log = << >>
  /\ plan_log = << >>
  /\ steps = << >>
  /\ chain_hash = NoHash
  /\ proof_log = << >>

\* the model stops after MaxSteps receipts and calls
within_steps == Len(heap) + Len(call_log) < MaxSteps

Next ==
  \/ \E m \in ExecutorRequests : within_steps /\ Mint(m[1], m[2])
  \/ \E m \in HandMade : within_steps /\ make_receipt("r-1", m[1], m[2])
  \/ \E p \in Presentations, script \in PlatformScripts :
       within_steps /\ publish_release(p[1], p[2], OmegaApp, script)
  \/ \E p \in Presentations, script \in PlatformScripts :
       within_steps /\ tag_repo(p[1], p[2], OmegaApp, script)
  \/ \E p \in Presentations, script \in PlatformScripts :
       within_steps /\ open_pr(p[1], p[2], OmegaApp, script)
  \/ Tick

Spec == Init /\ [][Next]_vars

(***************************************************************************)
(* Specification: the same, with the Executor constructed in dry_run mode  *)
(***************************************************************************)
InitDryRun ==
  /\ now = 0
  /\ heap = << >>
  /\ issued_receipts = << >>
  /\ issuance_audit = << >>
  /\ mint_log = << >>
  /\ verify_log = << >>
  /\ threads = idle_threads
  /\ sign_log = << >>
  /\ construct_log = <<constructed(DRY_RUN)>>
  /\ returned_audit = << >>
  /\ mode = DRY_RUN
  /\ enable_recovery = TRUE
  /\ consumed_receipts = << >>
  /\ request_times = << >>
  /\ audit_records = << >>
  /\ call_log = << >>
  /\ start_log = << >>
  /\ plan_log = << >>
  /\ steps = << >>
  /\ chain_hash = NoHash
  /\ proof_log = << >>

SpecDryRun == InitDryRun /\ [][Next]_vars

(***************************************************************************)
(* Specification: the Authority alone, with callers that tamper            *)
(***************************************************************************)
InitAuthority ==
  /\ now = 0
  /\ heap = << >>
  /\ issued_receipts = << >>
  /\ issuance_audit = << >>
  /\ mint_log = << >>
  /\ verify_log = << >>
  /\ threads = idle_threads
  /\ sign_log = << >>
  /\ construct_log = <<constructed(PROD)>>
  /\ returned_audit = << >>
  /\ mode = PROD
  /\ enable_recovery = TRUE
  /\ consumed_receipts = << >>
  /\ request_times = << >>
  /\ audit_records = << >>
  /\ call_log = << >>
  /\ start_log = << >>
  /\ plan_log = << >>
  /\ steps = << >>
  /\ chain_hash = NoHash
  /\ proof_log = << >>

\* the model stops after MaxAuthoritySteps mints and verifications
within_authority_steps == Len(mint_log) + Len(verify_log) < MaxAuthoritySteps

NextAuthority ==
  \/ \E m \in MintRequests : within_authority_steps /\ Mint(m[1], m[2])
  \/ \E obj \in 1..Len(heap), how \in Tamperings :
       within_authority_steps /\ Verify(obj, how)
  \/ Tick

SpecAuthority == InitAuthority /\ [][NextAuthority]_vars

(***************************************************************************)
(* Specification: two callers of verify_and_consume_receipt at once        *)
(***************************************************************************)
NextConcurrent ==
  \/ \E m \in MintRequests :
       /\ Len(mint_log) < MaxSharedReceipts
       /\ \A t \in Threads : threads[t].pc = "idle"
       /\ Mint(m[1], m[2])
  \/ \E t \in Threads, obj \in 1..Len(heap), how \in Tamperings :
       verify_begin(t, obj, how)
  \/ \E t \in Threads : verify_check_signature(t)
  \/ \E t \in Threads : verify_lookup(t)
  \/ \E t \in Threads : verify_check_consumed(t)
  \/ \E t \in Threads : verify_write(t)

SpecConcurrent == InitAuthority /\ [][NextConcurrent]_vars

(***************************************************************************)
(* Properties of the Executor                                              *)
(***************************************************************************)
\* an entry point of the Executor is called in this step
Called == Len(call_log') = Len(call_log) + 1

\* the call of this step, and the audit record it appended
this_call == call_log'[Len(call_log')]
this_audit == audit_records'[Len(audit_records')]

\* the call was refused before the platform: no platform request, nothing
\* returned, no receipt consumed, one audit record with status
\* "rejected_by_auth"
Refused ==
  /\ ~this_call.returned
  /\ this_call.invocations = 0
  /\ ~this_call.effect
  /\ heap' = heap
  /\ consumed_receipts' = consumed_receipts
  /\ Len(audit_records') = Len(audit_records) + 1
  /\ this_audit.status = "rejected_by_auth"

\* the receipt presented in call i of the history
presented(i) == heap[call_log[i].obj]

\* call i presented a receipt whose run_id and operation_kind are the ones
\* the entry point expects
matching(i) ==
  /\ call_log[i].obj # NoReceipt
  /\ presented(i).run_id = call_log[i].run_id
  /\ presented(i).operation_kind = call_log[i].operation_kind

\* C1: once an Executor call with a receipt has succeeded, every later call
\* of that Executor with the same receipt is refused as already consumed,
\* and the platform side effect is performed at most once for the receipt.
C1_OneTimeUse ==
  \A i, j \in 1..Len(call_log) :
    (i < j /\ call_log[i].obj # NoReceipt /\ call_log[i].obj = call_log[j].obj) =>
      /\ ~(call_log[i].effect /\ call_log[j].effect)
      /\ (call_log[i].returned /\ matching(j)) =>
            /\ ~call_log[j].returned
            /\ call_log[j].error_message = "already_consumed_replay"

\* C2: an Executor constructed in dry_run mode fails every call of every
\* entry point with ModeViolationError, whatever the receipt: the platform
\* client is never invoked, nothing is returned and no receipt is consumed.
C2_DryRunFailsClosed ==
  mode = DRY_RUN =>
    /\ \A i \in 1..Len(call_log) :
         /\ ~call_log[i].returned
         /\ call_log[i].invocations = 0
         /\ ~call_log[i].effect
         /\ call_log[i].error_code = "ModeViolationError"
    /\ Len(audit_records) = Len(call_log)
    /\ \A obj \in 1..Len(heap) : ~heap[obj].consumed
    /\ consumed_receipts = << >>
    /\ request_times = << >>

\* a dry_run Executor was called with a receipt that binds, is enforceable,
\* unconsumed and unexpired, and was called without a receipt
C2_Witness ==
  /\ mode = DRY_RUN
  /\ \E i \in 1..Len(call_log) :
       /\ matching(i)
       /\ validate_binding(presented(i), call_log[i].run_id,
                           call_log[i].operation_kind) = "ok"
  /\ \E i \in 1..Len(call_log) : call_log[i].obj = NoReceipt

\* C3: a prod-mode Executor refuses every call that presents an advisory
\* receipt: no platform request, nothing returned, the receipt not consumed;
\* when run_id and operation_kind match, the reason is advisory_rejected.
C3_AdvisoryNeverExecutable ==
  [][(Called /\ this_call.obj # NoReceipt /\ ~heap[this_call.obj].enforceable) =>
       /\ Refused
       /\ ~heap'[this_call.obj].consumed
       /\ (/\ heap[this_call.obj].run_id = this_call.run_id
           /\ heap[this_call.obj].operation_kind = this_call.operation_kind)
            => this_call.error_message = "advisory_rejected"]_vars

\* an advisory receipt with matching run_id and operation_kind was presented
\* to the prod-mode Executor
C3_Witness ==
  /\ mode = PROD
  /\ \E i \in 1..Len(call_log) :
       /\ matching(i)
       /\ ~presented(i).enforceable
       /\ call_log[i].error_message = "advisory_rejected"

\* C4: a prod-mode Executor refuses a call whose receipt was issued for
\* another run_id with cross_run_replay, and a call whose receipt has the
\* right run_id but another operation_kind with cross_operation_replay;
\* either way there is no platform request and the receipt stays unconsumed.
C4_BindingEnforced ==
  [][(Called /\ this_call.obj # NoReceipt) =>
       /\ heap[this_call.obj].run_id # this_call.run_id =>
            (Refused /\ this_call.error_message = "cross_run_replay")
       /\ (/\ heap[this_call.obj].run_id = this_call.run_id
           /\ heap[this_call.obj].operation_kind # this_call.operation_kind) =>
            (Refused /\ this_call.error_message = "cross_operation_replay")]_vars

\* one receipt, otherwise usable, was presented for another run and, with
\* its own run_id, to the entry point of another operation kind
C4_Witness ==
  /\ mode = PROD
  /\ \E i, j \in 1..Len(call_log) :
       /\ call_log[i].obj # NoReceipt
       /\ call_log[j].obj = call_log[i].obj
       /\ presented(i).enforceable
       /\ ~presented(i).consumed
       /\ presented(i).run_id # call_log[i].run_id
       /\ call_log[i].error_message = "cross_run_replay"
       /\ presented(j).run_id = call_log[j].run_id
       /\ presented(j).operation_kind # call_log[j].operation_kind
       /\ call_log[j].error_message = "cross_operation_replay"

\* the receipt of call i is the object a mint of the Authority returned
minted(i) ==
  \E k \in 1..Len(mint_log) :
    mint_log[k].outcome = "returned" /\ mint_log[k].obj = call_log[i].obj

\* C5: when an enforceable receipt returned by the mint is presented to the
\* matching entry point of a prod-mode Executor and the platform answers the
\* one request made of it, the call returns the platform's result, the audit
\* record has status "success" and carries the receipt_id, and the receipt
\* and the Authority's record for its receipt_id are consumed.
C5_HappyPath ==
  \A i \in 1..Len(call_log) :
    (/\ mode = PROD
     /\ matching(i)
     /\ minted(i)
     /\ presented(i).enforceable
     /\ call_log[i].effect
     /\ call_log[i].invocations = 1) =>
       /\ call_log[i].returned
       /\ audit_records[call_log[i].audit].status = "success"
       /\ audit_records[call_log[i].audit].receipt_id = presented(i).receipt_id
       /\ presented(i).consumed
       /\ heap[dict_get(issued_receipts, presented(i).receipt_id)].consumed

(***************************************************************************)
(* Properties of the Authority                                             *)
(***************************************************************************)
\* the receipt that mint k of the history returned
minted_receipt(k) == heap[mint_log[k].obj]

\* C6: every receipt the Authority minted is enforceable exactly when the
\* policy validation of its mint passed, and the issuance ledger records the
\* same enforceable value as the receipt carries.
C6_EnforceableIffApproved ==
  /\ Len(issuance_audit) = Len(mint_log)
  /\ \A k \in 1..Len(mint_log) :
       /\ mint_log[k].obj # NoReceipt
       /\ minted_receipt(k).enforceable <=> (mint_log[k].validation = "ok")
       /\ issuance_audit[k].receipt_id = minted_receipt(k).receipt_id
       /\ issuance_audit[k].enforceable = minted_receipt(k).enforceable

\* the Authority minted an enforceable receipt and, on a failed validation,
\* an advisory one
C6_Witness ==
  \E k, l \in 1..Len(mint_log) :
    /\ mint_log[k].validation = "ok"
    /\ mint_log[k].obj # NoReceipt
    /\ minted_receipt(k).enforceable
    /\ mint_log[l].validation # "ok"
    /\ mint_log[l].obj # NoReceipt
    /\ ~minted_receipt(l).enforceable

\* C7: the mint returns a receipt for every request and raises nothing; on
\* each kind of policy rejection the receipt is advisory, and like an
\* approved one it is signed by the Authority, stored under its receipt_id
\* and recorded in the issuance ledger, with decision "denied".
C7_MintAlwaysReturns ==
  /\ Len(issuance_audit) = Len(mint_log)
  /\ \A k \in 1..Len(mint_log) :
       /\ mint_log[k].outcome = "returned"
       /\ mint_log[k].obj \in 1..Len(heap)
       /\ verify_signature(minted_receipt(k), fc_secret)
       /\ minted_receipt(k).issuer = fc_id
       /\ minted_receipt(k).run_id = mint_log[k].context.run_id
       /\ minted_receipt(k).operation_kind = mint_log[k].context.operation_kind
       /\ minted_receipt(k).receipt_id \in dict_keys(issued_receipts)
       /\ issuance_audit[k].receipt_id = minted_receipt(k).receipt_id
       /\ issuance_audit[k].decision =
            (IF mint_log[k].validation = "ok" THEN "approved" ELSE "denied")
       /\ mint_log[k].validation # "ok" => ~minted_receipt(k).enforceable

\* the policy engine rejected mints for each of its three reasons
C7_Witness ==
  \A reason \in {"no_policy_for_kind", "repository_not_allowed",
                 "evidence_requirement_not_met"} :
    \E k \in 1..Len(mint_log) :
      /\ mint_log[k].validation = reason
      /\ mint_log[k].outcome = "returned"

\* verify_and_consume_receipt is called in this step
Verified == Len(verify_log') = Len(verify_log) + 1

\* the call of this step
this_verify == verify_log'[Len(verify_log')]

\* the Authority's records
authority_state == <<heap, issued_receipts, issuance_audit>>

\* C8: for every receipt_id at most one verify_and_consume_receipt call
\* succeeds: a call made after a successful one for the same receipt_id does
\* not succeed, fails as already consumed when the receipt is presented as
\* minted, and changes no state.
C8_ConsumeAtMostOnce ==
  [][(/\ Verified
      /\ \E i \in 1..Len(verify_log) :
           /\ verify_log[i].outcome = "ok"
           /\ verify_log[i].receipt_id = this_verify.receipt_id) =>
       /\ this_verify.outcome # "ok"
       /\ this_verify.how = "none" => this_verify.outcome = "already_consumed"
       /\ authority_state' = authority_state]_vars

\* C9: when two concurrent verify_and_consume_receipt calls on the same
\* receipt, presented as minted, have both finished, exactly one has
\* succeeded and the other has failed as already consumed.
C9_ExactlyOneSuccess ==
  (/\ \A t \in Threads : threads[t].pc = "done" /\ threads[t].how = "none"
   /\ threads["t1"].obj = threads["t2"].obj) =>
     \E t \in Threads :
       /\ threads[t].outcome = "ok"
       /\ \A u \in Threads \ {t} : threads[u].outcome = "already_consumed"

\* C10: a receipt whose signature was replaced or whose enforceable flag was
\* flipped after minting fails verify_and_consume_receipt with
\* invalid_signature; the stored receipts and the issuance records stay as
\* they were, so the receipt as minted is consumed by a later call exactly
\* as it would have been before.
C10_TamperedRejected ==
  [][(Verified /\ this_verify.how # "none") =>
       /\ this_verify.outcome = "invalid_signature"
       /\ authority_state' = authority_state
       /\ \A obj \in 1..Len(heap) :
            verify_outcome(heap[obj])' = verify_outcome(heap[obj])]_vars

\* a tampered presentation of either kind was refused and the same receipt,
\* presented as minted afterwards, was consumed
C10_Witness ==
  \A how \in Tamperings \ {"none"} :
    \E i, j \in 1..Len(verify_log) :
      /\ i < j
      /\ verify_log[i].how = how
      /\ verify_log[i].outcome = "invalid_signature"
      /\ verify_log[j].obj = verify_log[i].obj
      /\ verify_log[j].how = "none"
      /\ verify_log[j].outcome = "ok"
      /\ heap[verify_log[j].obj].consumed

(***************************************************************************)
(* Specification: callers that construct the Executor themselves           *)
(***************************************************************************)
InitConstruct ==
  /\ now = 0
  /\ heap = << >>
  /\ issued_receipts = << >>
  /\ issuance_audit = << >>
  /\ mint_log = << >>
  /\ verify_log = << >>
  /\ threads = idle_threads
  /\ sign_log = << >>
  /\ construct_log = << >>
  /\ returned_audit = << >>
  /\ mode = NoExecutor
  /\ enable_recovery = TRUE
  /\ consumed_receipts = << >>
  /\ request_times = << >>
  /\ audit_records = << >>
  /\ call_log = << >>
  /\ start_log = << >>
  /\ plan_log = << >>
  /\ steps = << >>
  /\ chain_hash = NoHash
  /\ proof_log = << >>

\* the model stops after MaxSteps constructor calls, receipts and calls
within_construct_steps ==
  Len(construct_log) + Len(heap) + Len(call_log) < MaxSteps

NextConstruct ==
  \/ \E text \in ModeStrings : within_construct_steps /\ construct(text)
  \/ \E m \in HandMade :
       within_construct_steps /\ make_receipt("r-1", m[1], m[2])
  \/ \E p \in Presentations, script \in PlatformScripts :
       within_construct_steps /\ publish_release(p[1], p[2], OmegaApp, script)
  \/ \E p \in Presentations, script \in PlatformScripts :
       within_construct_steps /\ tag_repo(p[1], p[2], OmegaApp, script)
  \/ \E p \in Presentations, script \in PlatformScripts :
       within_construct_steps /\ open_pr(p[1], p[2], OmegaApp, script)
  \/ Tick

SpecConstruct == InitConstruct /\ [][NextConstruct]_vars

\* C13: GitHubPublisher(...) returns an executor exactly when mode is the
\* string "prod" or "dry_run"; for every other string it raises, and as long
\* as every construction has raised there is no executor and no entry point
\* has been called.
C13_ConstructionExactMode ==
  /\ \A i \in 1..Len(construct_log) :
       construct_log[i].raised <=> construct_log[i].mode \notin {"prod", "dry_run"}
  /\ mode # NoExecutor => mode \in {"prod", "dry_run"}
  /\ mode # NoExecutor =>
       \E i \in 1..Len(construct_log) :
         ~construct_log[i].raised /\ construct_log[i].mode = mode
  /\ (\A i \in 1..Len(construct_log) : construct_log[i].raised) =>
       /\ mode = NoExecutor
       /\ call_log = << >>
       /\ audit_records = << >>

\* a construction with "PROD" raised, then one with "prod"
\* returned an executor and an entry point was called on it
C13_Witness ==
  /\ \E i, j \in 1..Len(construct_log) :
       /\ construct_log[i].mode = "PROD" /\ construct_log[i].raised
       /\ construct_log[j].mode = "prod" /\ ~construct_log[j].raised
  /\ mode = "prod"
  /\ call_log # << >>

\* C14: every call the mode gate refuses (the Executor's mode is not prod)
\* writes an audit record with status "rejected_by_mode", which is not the
\* status "rejected_by_auth" written for binding failures.
C14_ModeRejectionStatus ==
  \A i \in 1..Len(call_log) :
    call_log[i].error_code = "ModeViolationError" =>
      /\ call_log[i].audit \in 1..Len(audit_records)
      /\ audit_records[call_log[i].audit].status = "rejected_by_mode"

\* C16: the receipt_id of every audit record of an operation that succeeded
\* is the receipt_id of an issuance ledger entry with the record's run_id
\* (the weakest reading of: every receipt_id in the audit trail of a run is
\* in the issuance ledger under that run).
C16_AuditWithinLedger ==
  \A i \in 1..Len(audit_records) :
    audit_records[i].status = "success" =>
      \E k \in 1..Len(issuance_audit) :
        /\ issuance_audit[k].receipt_id = audit_records[i].receipt_id
        /\ issuance_audit[k].run_id = audit_records[i].run_id

\* C17: a receipt's consumed flag is true exactly when the Authority holds a
\* record under its receipt_id and that record is consumed.
C17_ConsumedMatchesLedger ==
  \A obj \in 1..Len(heap) :
    heap[obj].consumed <=>
      /\ heap[obj].receipt_id \in dict_keys(issued_receipts)
      /\ heap[dict_get(issued_receipts, heap[obj].receipt_id)].consumed

\* C18: an otherwise valid receipt presented to a prod-mode Executor at or
\* after its expires_at instant is refused as expired: no platform request,
\* nothing consumed.
C18_ExpiryStrict ==
  [][(/\ Called
      /\ this_call.obj # NoReceipt
      /\ validate_binding([heap[this_call.obj] EXCEPT !.expires_at = now + 1,
                                                      !.issued_at = now],
                          this_call.run_id, this_call.operation_kind) = "ok"
      /\ now >= heap[this_call.obj].expires_at) =>
       /\ Refused
       /\ this_call.error_message = "expired"]_vars

(***************************************************************************)
(* Specification: the Executor and callers whose receipts carry timestamps *)
(* of any age                                                              *)
(***************************************************************************)
\* hours since issue, and hours until expiry, of a receipt when it is built
IssuedAgo == {0, MAX_RECEIPT_AGE_HOURS, MAX_RECEIPT_AGE_HOURS + 1}
ExpiresIn == {1, 2}

NextFreshness ==
  \/ \E issued_ago \in IssuedAgo, expires_in \in ExpiresIn :
       /\ within_steps
       /\ make_aged_receipt("r-1", PUBLISH_RELEASE, issued_ago, expires_in)
  \/ \E p \in Presentations, script \in PlatformScripts :
       within_steps /\ publish_release(p[1], p[2], OmegaApp, script)
  \/ \E p \in Presentations, script \in PlatformScripts :
       within_steps /\ tag_repo(p[1], p[2], OmegaApp, script)
  \/ Tick

SpecFreshness == Init /\ [][NextFreshness]_vars

\* C19: a prod-mode Executor refuses an otherwise valid receipt issued more
\* than 24 hours ago as stale even though its expires_at is still ahead, and
\* lets a receipt issued 24 hours ago or less through to the platform.
C19_StaleIndependentOfExpiry ==
  [][(/\ Called
      /\ this_call.obj # NoReceipt
      /\ validate_binding([heap[this_call.obj] EXCEPT !.expires_at = now + 1,
                                                      !.issued_at = now],
                          this_call.run_id, this_call.operation_kind) = "ok"
      /\ heap[this_call.obj].expires_at > now) =>
       /\ now - heap[this_call.obj].issued_at > 24 =>
            (Refused /\ this_call.error_message = "stale")
       /\ now - heap[this_call.obj].issued_at <= 24 =>
            this_call.invocations >= 1]_vars

\* a receipt issued exactly 24 hours before reached the platform, and an
\* hour later, still unconsumed and unexpired, it was refused as stale
C19_Witness ==
  \E i, j \in 1..Len(call_log) :
    /\ i < j
    /\ call_log[i].obj # NoReceipt
    /\ call_log[j].obj = call_log[i].obj
    /\ call_log[i].invocations >= 1
    /\ call_log[j].error_message = "stale"
    /\ now - presented(j).issued_at = 25
    /\ presented(j).expires_at > now
    /\ ~presented(j).consumed

(***************************************************************************)
(* Specification: the Authority and callers that present receipts made     *)
(* outside it                                                              *)
(***************************************************************************)
\* the secrets a receipt made outside the Authority is signed with: one the
\* Authority does not use, and the Authority's own (a second instance)
ForgerySecrets == {other_secret, fc_secret}

\* the model stops after MaxAuthoritySteps receipts and verifications; the
\* clock stands still, which none of the three checks reads
within_forgery_steps == Len(heap) + Len(verify_log) < MaxAuthoritySteps

NextForgery ==
  \/ \E m \in MintRequests : within_forgery_steps /\ Mint(m[1], m[2])
  \/ \E secret \in ForgerySecrets : within_forgery_steps /\ forge_receipt(secret)
  \/ \E obj \in 1..Len(heap), how \in Tamperings :
       within_forgery_steps /\ Verify(obj, how)

SpecForgery == InitAuthority /\ [][NextForgery]_vars

\* the receipt_id has an entry neither among the stored receipts nor in the
\* issuance ledger
not_in_ledger(receipt_id) ==
  /\ receipt_id \notin dict_keys(issued_receipts)
  /\ \A k \in 1..Len(issuance_audit) : issuance_audit[k].receipt_id # receipt_id

Secrets == {fc_secret, other_secret, padded_secret}

\* the model stops after MaxSteps constructions, signings and assignments
within_signature_steps == Len(heap) + Len(sign_log) < MaxSteps

NextSignature ==
  \/ within_signature_steps /\ construct_receipt
  \/ \E obj \in 1..Len(heap), secret \in Secrets :
       within_signature_steps /\ sign_receipt(obj, secret)
  \/ \E obj \in 1..Len(heap), field \in DOMAIN Alterations :
       within_signature_steps /\ set_field(obj, field)

SpecSignature == InitAuthority /\ [][NextSignature]_vars

\* the positions in sign_log at which the receipt was signed
signings(obj) ==
  {i \in 1..Len(sign_log) : sign_log[i].op = "sign" /\ sign_log[i].obj = obj}

\* the latest entry of sign_log that signed the receipt
signing(obj) ==
  sign_log[CHOOSE i \in signings(obj) : \A j \in signings(obj) : j <= i]

\* C12: a receipt signed with secret s verifies under s' if and only if
\* s' = s and the nine signed fields are as they were at signing (consumed
\* and consumed_at are free to change); a receipt that was never signed
\* verifies under no secret.
C12_SignatureIff ==
  \A obj \in 1..Len(heap) : \A secret \in Secrets :
    verify_signature(heap[obj], secret) <=>
      /\ signings(obj) # {}
      /\ secret = signing(obj).secret
      /\ payload(heap[obj]) = signing(obj).payload

(***************************************************************************)
(* Specification: the Authority and a caller holding the list returned by  *)
(* get_issuance_audit                                                      *)
(***************************************************************************)
\* the model stops after MaxSteps mints and verifications
within_ledger_steps == Len(mint_log) + Len(verify_log) < MaxSteps

NextLedger ==
  \/ \E m \in MintRequests : within_ledger_steps /\ Mint(m[1], m[2])
  \/ \E obj \in 1..Len(heap) : within_ledger_steps /\ Verify(obj, "none")
  \/ get_issuance_audit
  \/ returned_pop
  \/ returned_reverse
  \/ \E k \in 1..Len(returned_audit) : returned_replace(k)
  \/ \E k \in 1..Len(returned_audit) : returned_rewrite(k)

SpecLedger == InitAuthority /\ [][NextLedger]_vars

\* C20: the issuance ledger is append-only and in mint order: a mint appends
\* exactly one entry, for the receipt it returns, at the end; no step (mint,
\* verification, or a caller changing the list it got from
\* get_issuance_audit) removes, moves or rewrites an existing entry.
C20_LedgerAppendOnly ==
  [][/\ Len(issuance_audit') >= Len(issuance_audit)
     /\ \A k \in 1..Len(issuance_audit) : issuance_audit'[k] = issuance_audit[k]
     /\ IF Len(mint_log') = Len(mint_log) + 1
        THEN /\ Len(issuance_audit') = Len(issuance_audit) + 1
             /\ issuance_audit'[Len(issuance_audit')].receipt_id =
                  heap'[mint_log'[Len(mint_log')].obj].receipt_id
        ELSE Len(issuance_audit') = Len(issuance_audit)]_vars

(***************************************************************************)
(* Specification: the Executor fresh in either mode, or in prod mode at    *)
(* the edge of its hourly request limit                                    *)
(***************************************************************************)
\* the call a busy Executor has served again and again: the platform
\* created the release and the request was recorded
busy_outcome == after_platform_ok(heap[1], 0, 1)

\* the Executor after `served` calls of
\* publish_release("r-1", receipt, "omega/app", ...) within the hour, all
\* with the same caller-made Authority-class receipt (call_log starts with
\* the calls that follow)
busy_executor(served) ==
  /\ now = 0
  /\ heap = <<sign(handmade_receipt, fc_secret)>>
  /\ mode = PROD
  /\ issued_receipts = << >>
  /\ issuance_audit = << >>
  /\ mint_log = << >>
  /\ verify_log = << >>
  /\ threads = idle_threads
  /\ sign_log = << >>
  /\ construct_log = <<constructed(PROD)>>
  /\ returned_audit = << >>
  /\ enable_recovery = TRUE
  /\ consumed_receipts = << >>
  /\ request_times = [k \in 1..served |-> now]
  /\ audit_records = [k \in 1..served |->
                        audit_record(PUBLISH_RELEASE, "r-1", 1, OmegaApp, busy_outcome)]
  /\ call_log = << >>
  /\ start_log = << >>
  /\ plan_log = << >>
  /\ steps = << >>
  /\ chain_hash = NoHash
  /\ proof_log = << >>

\* one request short of the hourly limit
InitBusy == busy_executor(requests_per_hour - 1)

InitAudit == Init \/ InitDryRun \/ InitBusy

\* what the platform does in this specification
AuditScripts == {<<"ok">>, <<"not_found">>}

NextAudit ==
  \/ within_steps /\ make_receipt("r-1", PUBLISH_RELEASE, TRUE)
  \/ \E p \in Presentations, script \in AuditScripts :
       within_steps /\ publish_release(p[1], p[2], OmegaApp, script)
  \/ \E p \in Presentations :
       within_steps /\ tag_repo(p[1], p[2], OmegaApp, <<"ok">>)
  \/ \E p \in Presentations :
       within_steps /\ open_pr(p[1], p[2], OmegaApp, <<"ok">>)

SpecAudit == InitAudit /\ [][NextAudit]_vars

\* C15: every call of publish_release, tag_repo or open_pr appends exactly
\* one record to audit_records, whether it succeeds or is refused by the mode
\* gate, by the binding checks, by the rate limiter or by the platform; the
\* record carries the presented receipt's receipt_id, or "NONE" when the call
\* had no receipt.
C15_OneAuditPerCall ==
  [][Called =>
       /\ Len(audit_records') = Len(audit_records) + 1
       /\ \A k \in 1..Len(audit_records) : audit_records'[k] = audit_records[k]
       /\ this_audit.run_id = this_call.run_id
       /\ this_audit.operation_kind = this_call.operation_kind
       /\ this_audit.receipt_id =
            IF this_call.obj = NoReceipt THEN NoneId
            ELSE heap[this_call.obj].receipt_id]_vars

\* a busy Executor served its last allowed request of the hour and then
\* refused a call as rate limited before reaching the platform; both calls
\* left one audit record carrying the presented receipt's receipt_id
C15_Witness ==
  \E i, j \in 1..Len(call_log) :
    /\ i < j
    /\ call_log[i].invocations = 1
    /\ call_log[j].error_message = "Rate limited"
    /\ call_log[j].invocations = 0
    /\ Len(audit_records) = requests_per_hour + 1
    /\ audit_records[call_log[j].audit].status = "failed"
    /\ audit_records[call_log[j].audit].receipt_id = heap[call_log[j].obj].receipt_id
    /\ audit_records[call_log[i].audit].receipt_id = heap[call_log[i].obj].receipt_id

\* C21: when the platform call of an entry point has succeeded and consuming
\* the receipt then fails, the call is audited with status "failed" and error
\* code "consume_after_success", returns no success result and leaves no
\* success audit record.
C21_ConsumeAfterSuccess ==
  [][(Called /\ this_call.effect /\ ~heap'[this_call.obj].consumed) =>
       /\ ~this_call.returned
       /\ Len(audit_records') = Len(audit_records) + 1
       /\ this_audit.status = "failed"
       /\ this_audit.error_code = "consume_after_success"]_vars

(***************************************************************************)
(* Specification: the Executor, built with or without recovery, and a      *)
(* platform that fails                                                     *)
(***************************************************************************)
\* GitHubPublisher(token, mode="prod", enable_recovery=...)
InitRetry ==
  /\ now = 0
  /\ heap = << >>
  /\ issued_receipts = << >>
  /\ issuance_audit = << >>
  /\ mint_log = << >>
  /\ verify_log = << >>
  /\ threads = idle_threads
  /\ sign_log = << >>
  /\ construct_log = <<constructed(PROD)>>
  /\ returned_audit = << >>
  /\ mode = PROD
  /\ enable_recovery \in BOOLEAN
  /\ consumed_receipts = << >>
  /\ request_times = << >>
  /\ audit_records = << >>
  /\ call_log = << >>
  /\ start_log = << >>
  /\ plan_log = << >>
  /\ steps = << >>
  /\ chain_hash = NoHash
  /\ proof_log = << >>

\* what the platform client answers, invocation after invocation
RetryScripts ==
  {<<"ok">>, <<"not_found">>, <<"timeout">>, <<"timeout", "ok">>,
   <<"timeout", "not_found">>,
   <<"service_unavailable", "connection_error", "rate_limited", "ok">>}

NextRetry ==
  \/ \E operation_kind \in {PUBLISH_RELEASE, TAG_REPO} :
       within_steps /\ make_receipt("r-1", operation_kind, TRUE)
  \/ \E p \in Presentations, script \in RetryScripts :
       within_steps /\ publish_release(p[1], p[2], OmegaApp, script)
  \/ \E p \in Presentations, script \in RetryScripts :
       within_steps /\ tag_repo(p[1], p[2], OmegaApp, script)

SpecRetry == InitRetry /\ [][NextRetry]_vars

\* C22: within one publish_release call the platform client is invoked at
\* most 3 times, also when every attempt fails with a transient error code.
C22_AtMostThreeAttempts ==
  [][(Called /\ this_call.operation_kind = PUBLISH_RELEASE) =>
       this_call.invocations <= 3]_vars

\* C23: when the first failure of the platform client is not a transient
\* error code, or the Executor was built with enable_recovery = false, the
\* call makes no further attempt: the client was invoked exactly once, the
\* error is raised, the audit status is "failed" and the receipt is not
\* consumed.
C23_NoRetryWhenFatal ==
  [][\A p \in Presentations, script \in RetryScripts :
       (/\ publish_release(p[1], p[2], OmegaApp, script)
            \/ tag_repo(p[1], p[2], OmegaApp, script)
        /\ this_call.invocations >= 1
        /\ script[1] # "ok"
        /\ script[1] \notin transient_errors \/ ~enable_recovery) =>
         /\ this_call.invocations = 1
         /\ ~this_call.returned
         /\ ~this_call.effect
         /\ this_call.error_message = script[1]
         /\ this_audit.status = "failed"
         /\ heap' = heap
         /\ consumed_receipts' = consumed_receipts]_vars

\* an Executor built without recovery was called twice with a valid receipt:
\* the platform timed out in one call and answered not_found in the other;
\* each time the client was invoked once and the receipt stayed unconsumed
C23_Witness ==
  \E i, j \in 1..Len(call_log) :
    /\ ~enable_recovery
    /\ call_log[i].operation_kind = PUBLISH_RELEASE
    /\ call_log[i].error_message = "timeout"
    /\ call_log[j].error_message = "not_found"
    /\ \A k \in {i, j} :
         /\ call_log[k].invocations = 1
         /\ call_log[k].status = "failed"
         /\ audit_records[call_log[k].audit].status = "failed"
         /\ ~heap[call_log[k].obj].consumed

(***************************************************************************)
(* Specification: the Executor with a full request window, and the clock   *)
(***************************************************************************)
\* the hourly limit is used up
InitFull == busy_executor(requests_per_hour)

\* the model stops after MaxSteps receipts and calls on top of the history
within_window_steps == (Len(heap) - 1) + Len(call_log) < MaxSteps

\* a caller-made receipt that outlives the window
LongLived == RECEIPT_TTL_HOURS + 1

NextWindow ==
  \/ within_window_steps /\ make_aged_receipt("r-1", PUBLISH_RELEASE, 0, LongLived)
  \/ \E obj \in 1..Len(heap) :
       within_window_steps /\ publish_release("r-1", obj, OmegaApp, <<"ok">>)
  \/ Tick

SpecWindow == InitFull /\ [][NextWindow]_vars

\* the recorded requests made less than an hour ago, and more than an hour ago
recent_requests == {k \in 1..Len(request_times) : now - request_times[k] < 1}
old_requests == {k \in 1..Len(request_times) : now - request_times[k] > 1}

\* C24: a call with a valid receipt made while requests_per_hour requests
\* of the last hour are recorded fails at once, without invoking the platform
\* client, with audit status "failed" and the receipt left unconsumed; the
\* requests recorded more than an hour ago do not count, and a call made when
\* fewer than requests_per_hour others are recorded reaches the platform.
C24_SlidingWindow ==
  [][(Called /\ validate_authorization(this_call.obj, this_call.run_id,
                                       this_call.operation_kind) = "ok") =>
       /\ Cardinality(recent_requests) >= requests_per_hour =>
            /\ this_call.invocations = 0
            /\ ~this_call.returned
            /\ this_call.error_message = "Rate limited"
            /\ this_audit.status = "failed"
            /\ heap' = heap
            /\ consumed_receipts' = consumed_receipts
       /\ Len(request_times) - Cardinality(old_requests) < requests_per_hour =>
            this_call.invocations = 1]_vars

\* a call with a valid receipt was refused as rate limited while the window
\* was full, and more than an hour later a call with the same receipt
\* reached the platform and succeeded
C24_Witness ==
  \E i, j \in 1..Len(call_log) :
    /\ i < j
    /\ call_log[i].error_message = "Rate limited"
    /\ call_log[i].invocations = 0
    /\ call_log[j].obj = call_log[i].obj
    /\ call_log[j].returned
    /\ call_log[j].invocations = 1
    /\ now > 1
    /\ request_times = <<now>>

(***************************************************************************)
(* Specification: the bridge authorizing publication plans                 *)
(***************************************************************************)
\* the longest plan
MaxPlanLen == 2

\* what a plan may ask for: allowed without evidence, allowed on evidence,
\* repository not allowed, no policy for the kind
PlanItems ==
  {[operation_kind |-> "publish_release", repository |-> OmegaApp],
   [operation_kind |-> "TAG_REPO", repository |-> OmegaApp],
   [operation_kind |-> "publish_release", repository |-> RandomX],
   [operation_kind |-> "open_pr", repository |-> OmegaApp]}

\* the operation_id of the k-th operation of a plan
OperationId(k) == <<"op", k>>

\* publication_plan["operations"]: up to MaxPlanLen operations with
\* operation ids of their own
Plans ==
  UNION {{[k \in 1..n |->
            [operation_id |-> OperationId(k),
             operation_kind |-> items[k].operation_kind,
             repository |-> items[k].repository]] :
          items \in [1..n -> PlanItems]} : n \in 0..MaxPlanLen}

\* approver_evidence["approvers"]
Approvers == {<< >>, <<"approver-1">>}

\* the model stops calling the bridge after MaxSteps calls and mints; the
\* clock stands still between them
within_bridge_steps == Len(plan_log) + Len(mint_log) < MaxSteps

NextBridge ==
  \E run_id \in RunIds, operations \in Plans, approvers \in Approvers :
       within_bridge_steps /\ authorize_publication_plan(run_id, operations, approvers)

SpecBridge == InitAuthority /\ [][NextBridge]_vars

\* a step that is a call of authorize_publication_plan, and that call
Planned == Len(plan_log') = Len(plan_log) + 1
this_plan == plan_log'[Len(plan_log')]

\* C25: authorize_publication_plan mints exactly one receipt per operation
\* of the plan, in plan order and under the plan's run_id; receipts holds
\* exactly the operations whose receipt is enforceable, blocked_operations
\* exactly the others; authorized_operations + |blocked_operations| =
\* total_operations; execution_ready holds iff blocked_operations is empty.
C25_PlanAuthorization ==
  [][Planned =>
       LET operations == this_plan.operations
           n == Len(operations)
           result == this_plan.result
           receipt(k) == heap'[Len(heap) + k]
           authorized == {k \in 1..n : receipt(k).enforceable}
           blocked == result.blocked_operations
       IN /\ ~this_plan.raised
          /\ Len(heap') = Len(heap) + n
          /\ Len(mint_log') = Len(mint_log) + n
          /\ Len(issuance_audit') = Len(issuance_audit) + n
          /\ \A k \in 1..Len(heap) : heap'[k] = heap[k]
          /\ \A k \in 1..n :
               /\ mint_log'[Len(mint_log) + k].obj = Len(heap) + k
               /\ receipt(k).run_id = this_plan.run_id
               /\ receipt(k).operation_kind =
                    operation_kind_named(operations[k].operation_kind)
               /\ mint_log'[Len(mint_log) + k].context.repository =
                    operations[k].repository
               /\ issuance_audit'[Len(issuance_audit) + k].receipt_id =
                    receipt(k).receipt_id
               /\ issuance_audit'[Len(issuance_audit) + k].run_id = this_plan.run_id
          /\ dict_keys(result.receipts) = {operations[k].operation_id : k \in authorized}
          /\ \A k \in authorized :
               dict_get(result.receipts, operations[k].operation_id) = Len(heap) + k
          /\ {blocked[i].operation_id : i \in 1..Len(blocked)} =
               {operations[k].operation_id : k \in (1..n) \ authorized}
          /\ Len(blocked) = n - Cardinality(authorized)
          /\ result.total_operations = n
          /\ result.authorized_operations = Cardinality(authorized)
          /\ result.authorized_operations + Len(blocked) = result.total_operations
          /\ result.execution_ready <=> (blocked = << >>)
          /\ result.run_id = this_plan.run_id]_vars

\* the bridge returned a plan with one operation authorized and one blocked
\* (not ready), and a plan with every operation authorized (ready)
C25_Witness ==
  \E i, j \in 1..Len(plan_log) :
    /\ Len(plan_log[i].operations) = 2
    /\ plan_log[i].result.authorized_operations = 1
    /\ Len(plan_log[i].result.blocked_operations) = 1
    /\ ~plan_log[i].result.execution_ready
    /\ plan_log[j].operations # << >>
    /\ plan_log[j].result.blocked_operations = << >>
    /\ plan_log[j].result.execution_ready

(***************************************************************************)
(* Specification: the proof generator and a caller that rewrites recorded  *)
(* steps                                                                   *)
(***************************************************************************)
\* the steps the model records: (step_id, actor, description, input, output)
StepInputs ==
  {<<<<"step-1-dry-run">>, <<"MarketOps Engine">>, "plan", "request", "plan">>,
   <<<<"step-2-fc-authorization">>, <<"Federation Core">>, "mint", "plan", "receipt">>}

\* the steps record_step has returned
recorded_steps ==
  {proof_log[i].step : i \in {j \in 1..Len(proof_log) : proof_log[j].call = "record_step"}}

\* the model stops after MaxSteps calls of the generator
within_tamper_steps == Len(proof_log) < MaxSteps

\* a caller rewrites one field of one step while the others are as recorded
NextTamper ==
  \/ \E i \in StepInputs :
       within_tamper_steps /\ record_step(i[1], i[2], i[3], i[4], i[5])
  \/ within_tamper_steps /\ finalize_chain
  \/ \E k \in 1..Len(steps), field \in DOMAIN StepAlterations :
       /\ \A j \in 1..Len(steps) : steps[j] \in recorded_steps
       /\ tamper_step(k, field)
  \/ Tick

SpecTamper == InitAuthority /\ [][NextTamper]_vars

\* C26: a step of the generator's list whose step_id, timestamp, actor,
\* description, input_hash or output_hash is not as record_step recorded it
\* fails to verify under the generator's secret, also after finalize_chain
\* has recomputed chain_hash over the altered list.
C26_TamperedStepFails ==
  \A k \in 1..Len(steps) :
    steps[k] \notin recorded_steps => ~step_verifies(steps[k])

(***************************************************************************)
(* Specification: the proof generator and a caller that reorders the steps *)
(***************************************************************************)
\* the longest list of steps
MaxProofSteps == 2

\* the model stops after MaxAuthoritySteps calls of the generator
within_proof_steps == Len(proof_log) < MaxAuthoritySteps

NextProof ==
  \/ \E i \in StepInputs :
       /\ within_proof_steps
       /\ Len(steps) < MaxProofSteps
       /\ record_step(i[1], i[2], i[3], i[4], i[5])
  \/ within_proof_steps /\ finalize_chain
  \/ \E k \in 1..(Len(steps) - 1) : swap_steps(k)
  \/ Tick

SpecProof == InitAuthority /\ [][NextProof]_vars

\* the finalize_chain calls made so far, and the number of record_step calls
\* made before call i
finalized == {i \in 1..Len(proof_log) : proof_log[i].call = "finalize_chain"}
recorded_before(i) == Cardinality({j \in 1..i : proof_log[j].call = "record_step"})

\* how often a step occurs in a list
occurrences(step_list, step) ==
  Cardinality({k \in 1..Len(step_list) : step_list[k] = step})

\* the two lists hold the same steps, in a different order
reordered(a, b) ==
  /\ a # b
  /\ Len(a) = Len(b)
  /\ \A k \in 1..Len(a) : occurrences(a, a[k]) = occurrences(b, a[k])

\* C27: chain_hash is determined by the ordered list of steps: record_step
\* appends at the end, finalize_chain reports as total_steps the number of
\* record_step calls and leaves the list alone, two finalize_chain calls over
\* the same list give the same chain_hash and proof_id, and two over lists
\* with the same steps in a different order give different chain_hash values.
C27_ChainHashByOrder ==
  [][/\ Len(proof_log') = Len(proof_log) + 1 =>
          LET call == proof_log'[Len(proof_log')] IN
          IF call.call = "record_step"
          THEN steps' = Append(steps, call.step)
          ELSE /\ steps' = steps
               /\ call.result.steps = steps
               /\ call.result.total_steps = recorded_before(Len(proof_log))
               /\ call.result.chain_hash = chain_hash'
     /\ \A i, j \in finalized' :
          LET a == proof_log'[i].result
              b == proof_log'[j].result
          IN /\ a.steps = b.steps =>
                  /\ a.chain_hash = b.chain_hash
                  /\ a.proof_id = b.proof_id
                  /\ a.total_steps = b.total_steps
             /\ reordered(a.steps, b.steps) => a.chain_hash # b.chain_hash]_vars

\* finalize_chain was called over two recorded steps and, at a later time,
\* again after a caller had exchanged the two steps: the second call gave
\* another chain_hash
C27_Witness ==
  \E i, j \in finalized :
    /\ i < j
    /\ proof_log[i].result.total_steps = 2
    /\ reordered(proof_log[i].result.steps, proof_log[j].result.steps)
    /\ proof_log[i].result.chain_hash # proof_log[j].result.chain_hash
    /\ proof_log[i].result.generated_at # proof_log[j].result.generated_at

(***************************************************************************)
(* Specification: the policy rules put to every kind, repository and       *)
(* evidence                                                                *)
(***************************************************************************)
three_approvers == <<given_evidence(<<"approver-1", "approver-2", "approver-3">>)>>

\* every kind, an allowed and a disallowed repository, and no evidence, one
\* approval or three approvals
PolicyRequests ==
  {<<request("r-1", kind, repository), given>> :
     kind \in OperationKind,
     repository \in {OmegaApp, RandomX},
     given \in {NoEvidence, one_approver, three_approvers}}

within_policy_steps == Len(mint_log) < MaxSteps

NextPolicy ==
  \E m \in PolicyRequests : within_policy_steps /\ Mint(m[1], m[2])

SpecPolicy == Init /\ [][NextPolicy]_vars

\* the approvers of the evidence the k-th mint was decided on
mint_approvers(k) == minted_receipt(k).evidence_hash[1].approvers

\* the value a predicate's key has in the evidence
evidence_value(approvers, key) ==
  IF key = "approval_count" THEN Len(approvers) ELSE 0

\* a predicate "key OP value" read with its operator
predicate_holds(approvers, predicate) ==
  LET held == evidence_value(approvers, predicate.key) IN
  CASE predicate.op = ">=" -> held >= predicate.value
    [] predicate.op = "<=" -> held <= predicate.value
    [] predicate.op = "==" -> held = predicate.value

\* every predicate of the kind's rule holds of the evidence
predicates_hold(kind, approvers) ==
  \A i \in 1..Len(policy.rules[kind].require_evidence) :
    predicate_holds(approvers, policy.rules[kind].require_evidence[i])

mint_denied(k) ==
  /\ ~minted_receipt(k).enforceable
  /\ issuance_audit[k].enforceable = FALSE

mint_approved(k) ==
  /\ minted_receipt(k).enforceable
  /\ issuance_audit[k].enforceable = TRUE

\* C28: the rules are evaluated in the order kind known, repository allowed,
\* evidence predicates, and the first that fails is the one reported: a mint
\* for a kind with no rule is denied as no-policy whatever its repository and
\* evidence, a mint for a repository outside the kind's list is denied as
\* repository-not-allowed whatever its evidence, the evidence is only ever
\* the reported failure when kind and repository passed, and a mint that
\* passes all three is approved.
C28_RuleOrder ==
  \A k \in 1..Len(mint_log) :
    LET context == mint_log[k].context
        known == context.operation_kind \in DOMAIN policy.rules
        listed == matches_pattern(context.repository,
                    policy.rules[context.operation_kind].allowed_repositories)
    IN /\ ~known => (mint_log[k].validation = "no_policy_for_kind" /\ mint_denied(k))
       /\ (known /\ ~listed) =>
            (mint_log[k].validation = "repository_not_allowed" /\ mint_denied(k))
       /\ mint_log[k].validation = "evidence_requirement_not_met" =>
            (known /\ listed /\ mint_denied(k)
             /\ ~predicates_hold(context.operation_kind, mint_approvers(k)))
       /\ (known /\ listed /\ predicates_hold(context.operation_kind, mint_approvers(k)))
            => (mint_log[k].validation = "ok" /\ mint_approved(k))

\* a kind without a rule, a disallowed repository with failing evidence, and
\* an approved request have all been put to the Authority
C28_Witness ==
  /\ \E k \in 1..Len(mint_log) :
       /\ mint_log[k].context = request("r-1", OPEN_PR, RandomX)
       /\ mint_approvers(k) = << >>
       /\ mint_log[k].validation = "no_policy_for_kind"
  /\ \E k \in 1..Len(mint_log) :
       /\ mint_log[k].context = request("r-1", TAG_REPO, RandomX)
       /\ mint_approvers(k) = << >>
       /\ mint_log[k].validation = "repository_not_allowed"
  /\ \E k \in 1..Len(mint_log) :
       /\ mint_log[k].context = request("r-1", TAG_REPO, OmegaApp)
       /\ mint_approved(k)

\* C29: a mint whose kind has a rule and whose repository is allowed is
\* approved exactly when every predicate of the rule's require_evidence,
\* whether its operator is >=, <= or ==, holds of the evidence; evidence
\* that breaks a <= or == predicate gets an advisory receipt like evidence
\* that breaks a >= predicate.
C29_EveryPredicateEvaluated ==
  \A k \in 1..Len(mint_log) :
    LET context == mint_log[k].context IN
    (/\ context.operation_kind \in DOMAIN policy.rules
     /\ matches_pattern(context.repository,
          policy.rules[context.operation_kind].allowed_repositories))
      => (minted_receipt(k).enforceable
            <=> predicates_hold(context.operation_kind, mint_approvers(k)))

(***************************************************************************)
(* Specification: several callers of one Executor whose calls overlap      *)
(***************************************************************************)
OverlapScripts == {<<"ok">>, <<"timeout", "ok">>, <<"not_found">>}

within_overlap_steps == Len(heap) + Len(start_log) < MaxSteps

NextOverlap ==
  \/ within_overlap_steps /\ make_receipt("r-1", PUBLISH_RELEASE, TRUE)
  \/ \E p \in Presentations, script \in OverlapScripts :
       within_overlap_steps /\ begin_call(PUBLISH_RELEASE, p[1], p[2], OmegaApp, script)
  \/ \E k \in 1..Len(start_log) : finish_call(k)

SpecOverlap == Init /\ [][NextOverlap]_vars

\* C30: of two calls for the same run_id that both have an audit record, the
\* one that started first has the earlier record in the audit trail, also
\* when the later call completed while the earlier one was still running.
C30_AuditInStartOrder ==
  \A i, j \in 1..Len(start_log) :
    (/\ i < j
     /\ start_log[i].run_id = start_log[j].run_id
     /\ start_log[i].audit # 0
     /\ start_log[j].audit # 0)
      => start_log[i].audit < start_log[j].audit

(***************************************************************************)
(* Specification: receipts failing several binding checks at once          *)
(***************************************************************************)
\* (issued_ago, expires_in): fresh, expired, expired and too old, too old only
AgeProfiles ==
  {<<0, 1>>, <<1, -1>>, <<MAX_RECEIPT_AGE_HOURS + 1, -1>>, <<MAX_RECEIPT_AGE_HOURS + 1, 1>>}

NextBinding ==
  \/ \E is_enforceable \in BOOLEAN, is_consumed \in BOOLEAN, age \in AgeProfiles :
       /\ within_steps
       /\ build_receipt("r-1", PUBLISH_RELEASE, is_enforceable, is_consumed, age[1], age[2])
  \/ \E p \in Presentations :
       within_steps /\ publish_release(p[1], p[2], OmegaApp, <<"ok">>)
  \/ \E p \in Presentations :
       within_steps /\ tag_repo(p[1], p[2], OmegaApp, <<"ok">>)

SpecBinding == Init /\ [][NextBinding]_vars

\* C31: a call that presents a receipt is refused with the first of the six
\* binding checks that fails, in the order run_id, operation_kind,
\* enforceable, not consumed, not expired, not stale: a receipt failing a
\* check is never reported with a later one, whatever else is wrong with it.
C31_FirstFailingCheck ==
  [][(Called /\ this_call.obj # NoReceipt) =>
       LET receipt == heap[this_call.obj]
           other_run == receipt.run_id # this_call.run_id
           other_kind == receipt.operation_kind # this_call.operation_kind
           advisory == ~receipt.enforceable
           used == receipt.consumed
           expired == now > receipt.expires_at
           stale == now - receipt.issued_at > 24
           refused_as(reason) == Refused /\ this_call.error_message = reason
       IN /\ other_run => refused_as("cross_run_replay")
          /\ (~other_run /\ other_kind) => refused_as("cross_operation_replay")
          /\ (~other_run /\ ~other_kind /\ advisory) => refused_as("advisory_rejected")
          /\ (~other_run /\ ~other_kind /\ ~advisory /\ used) =>
               refused_as("already_consumed_replay")
          /\ (~other_run /\ ~other_kind /\ ~advisory /\ ~used /\ expired) =>
               refused_as("expired")
          /\ (~other_run /\ ~other_kind /\ ~advisory /\ ~used /\ ~expired /\ stale) =>
               refused_as("stale")
          /\ (~other_run /\ ~other_kind /\ ~advisory /\ ~used /\ ~expired /\ ~stale) =>
               this_call.invocations >= 1]_vars

\* a receipt that is both expired and older than 24 hours was refused as
\* expired, and under another run_id as a cross-run replay
C31_Witness ==
  \E i, j \in 1..Len(call_log) :
    /\ call_log[i].obj # NoReceipt
    /\ call_log[j].obj = call_log[i].obj
    /\ presented(i).enforceable /\ ~presented(i).consumed
    /\ now > presented(i).expires_at
    /\ now - presented(i).issued_at > 24
    /\ call_log[i].run_id = "r-1"
    /\ call_log[i].operation_kind = PUBLISH_RELEASE
    /\ call_log[i].error_message = "expired"
    /\ call_log[j].run_id = "r-2"
    /\ call_log[j].error_message = "cross_run_replay"

(***************************************************************************)
(* Specification: the gates of an entry point, on executors in either mode *)
(* and with a rate window about to fill                                    *)
(***************************************************************************)
NextGate ==
  \/ \E is_enforceable \in BOOLEAN, expires_in \in {1, -1} :
       /\ within_steps
       /\ build_receipt("r-1", PUBLISH_RELEASE, is_enforceable, FALSE, 0, expires_in)
  \/ \E p \in Presentations :
       within_steps /\ publish_release(p[1], p[2], OmegaApp, <<"ok">>)
  \/ \E p \in Presentations :
       within_steps /\ open_pr(p[1], p[2], OmegaApp, <<"ok">>)

SpecGate == InitAudit /\ [][NextGate]_vars

\* the receipt passes the six binding checks for (run_id, operation_kind)
six_checks_pass(receipt, run_id, operation_kind) ==
  /\ receipt.run_id = run_id
  /\ receipt.operation_kind = operation_kind
  /\ receipt.enforceable
  /\ ~receipt.consumed
  /\ ~(now > receipt.expires_at)
  /\ ~(now - receipt.issued_at > 24)

\* the requests of the last hour leave room for one more
window_has_capacity ==
  Cardinality({i \in 1..Len(request_times) : request_times[i] > now - 1}) < 5000

\* C32: in every entry-point call the mode gate comes first, the binding
\* validation second and the rate check third, and the platform client is
\* invoked only when all three passed: outside prod mode the call is a mode
\* violation whatever the receipt (also with no receipt), in prod mode a
\* missing receipt or a failed binding check is a receipt validation error
\* whatever the rate window, and whenever the client is invoked the mode is
\* prod, the receipt passed the six checks and the window had capacity.
C32_GateOrder ==
  [][Called =>
       LET bound == /\ this_call.obj # NoReceipt
                    /\ six_checks_pass(heap[this_call.obj], this_call.run_id,
                                       this_call.operation_kind)
       IN /\ mode # "prod" =>
               /\ this_call.error_code = "ModeViolationError"
               /\ this_call.invocations = 0
          /\ (mode = "prod" /\ ~bound) =>
               /\ this_call.error_code = "ReceiptValidationError"
               /\ this_call.invocations = 0
          /\ (mode = "prod" /\ bound /\ ~window_has_capacity) =>
               /\ this_call.error_message = "Rate limited"
               /\ this_call.invocations = 0
          /\ this_call.invocations >= 1 =>
               (mode = "prod" /\ bound /\ window_has_capacity)]_vars

\* a dry_run executor was called with no receipt and reported a mode
\* violation
C32_Witness ==
  /\ mode = "dry_run"
  /\ \E i \in 1..Len(call_log) :
       /\ call_log[i].obj = NoReceipt
       /\ call_log[i].error_code = "ModeViolationError"
       /\ call_log[i].error_message = "mode_violation"
       /\ call_log[i].invocations = 0

\* the recorded requests that still count in the rate window at time t
requests_in_window(times, t) == SelectSeq(times, LAMBDA at : at > t - 1)

\* C33: an entry-point call that does not return success leaves every
\* receipt's consumed and consumed_at, the executor's consumed-receipt map
\* and the requests recorded in the rate window as they were, and appends
\* exactly one audit record.
C33_FailedCallChangesNothing ==
  [][(Called /\ ~this_call.returned) =>
       /\ heap' = heap
       /\ consumed_receipts' = consumed_receipts
       /\ requests_in_window(request_times', now) = requests_in_window(request_times, now)
       /\ Len(audit_records') = Len(audit_records) + 1
       /\ SubSeq(audit_records', 1, Len(audit_records)) = audit_records]_vars

\* C34: tag_repo and open_pr retry like publish_release: with recovery
\* enabled a call of theirs never fails with a transient platform error
\* after a single attempt, and a success record's retry_count is the number
\* of failed attempts before the success.
C34_TagAndPrRetry ==
  [][(/\ Called
      /\ enable_recovery
      /\ this_call.operation_kind \in {"tag_repo", "open_pr"}
      /\ this_call.invocations >= 1) =>
       /\ (/\ this_call.status = "failed"
           /\ this_call.error_message \in
                {"timeout", "connection_error", "rate_limited", "service_unavailable"})
            => this_call.invocations > 1
       /\ this_call.returned => this_audit.retry_count = this_call.invocations - 1]_vars

\* C35: every entry-point call ends after at most MAX_RETRIES + 1 platform
\* attempts, either returning success or raising, and in exactly one audited
\* terminal state (success, failed or rejected_by_auth) that is the call's
\* own outcome, also when the platform fails with a transient error on every
\* attempt.
C35_CallTerminatesAudited ==
  [][Called =>
       /\ this_call.invocations <= 3 + 1
       /\ this_call.status \in {"success", "failed", "rejected_by_auth"}
       /\ this_call.returned <=> this_call.status = "success"
       /\ Len(audit_records') = Len(audit_records) + 1
       /\ this_audit.status = this_call.status
       /\ this_audit.run_id = this_call.run_id]_vars

\* with recovery enabled, a publish_release call whose platform client timed
\* out on every attempt ended failed after four attempts, with its audit record
C35_Witness ==
  /\ enable_recovery
  /\ \E i \in 1..Len(call_log) :
       /\ call_log[i].operation_kind = PUBLISH_RELEASE
       /\ call_log[i].status = "failed"
       /\ call_log[i].error_message = "timeout"
       /\ call_log[i].invocations = 4
       /\ call_log[i].audit # 0
       /\ audit_records[call_log[i].audit].status = "failed"

\* C36: the receipt_ids of the mints of one Authority are pairwise different,
\* also for the same run_id and operation_kind at the same clock value, so
\* issued_receipts holds one entry per mint, in mint order, each still
\* naming the receipt that mint returned.
C36_UniqueReceiptIds ==
  /\ \A i, j \in 1..Len(mint_log) :
       i # j => minted_receipt(i).receipt_id # minted_receipt(j).receipt_id
  /\ Len(issued_receipts) = Len(mint_log)
  /\ \A k \in 1..Len(issued_receipts) :
       /\ k <= Len(mint_log)
       /\ issued_receipts[k].key = minted_receipt(k).receipt_id
       /\ issued_receipts[k].value = mint_log[k].obj

(***************************************************************************)
(* Specification: receipts from mint to consumption, presented to the      *)
(* Executor and to the Authority as time passes                            *)
(***************************************************************************)
within_lifecycle_steps ==
  Len(heap) + Len(call_log) + Len(verify_log) < MaxAuthoritySteps

NextLifecycle ==
  \/ \E m \in ExecutorRequests : within_lifecycle_steps /\ Mint(m[1], m[2])
  \/ within_lifecycle_steps /\ make_receipt("r-1", PUBLISH_RELEASE, TRUE)
  \/ \E p \in Presentations :
       within_lifecycle_steps /\ publish_release(p[1], p[2], OmegaApp, <<"ok">>)
  \/ \E obj \in 1..Len(heap) : within_lifecycle_steps /\ Verify(obj, "none")
  \/ Tick

SpecLifecycle == Init /\ [][NextLifecycle]_vars

\* the fields of a receipt other than consumed and consumed_at
fixed_fields(receipt) == [receipt EXCEPT !.consumed = FALSE, !.consumed_at = NoTime]

\* C37: no step of the Authority or the Executor changes a field of an
\* existing receipt other than consumed and consumed_at; consumed never goes
\* from true to false; consumed_at is written only in the step that takes
\* consumed from false to true, and is none before it.
C37_ImmutableButConsumed ==
  [][/\ Len(heap') >= Len(heap)
     /\ \A obj \in 1..Len(heap) :
          /\ fixed_fields(heap'[obj]) = fixed_fields(heap[obj])
          /\ heap[obj].consumed => heap'[obj].consumed
          /\ heap'[obj].consumed_at # heap[obj].consumed_at =>
               (~heap[obj].consumed /\ heap'[obj].consumed)
          /\ ~heap'[obj].consumed => heap'[obj].consumed_at = NoTime]_vars

\* a receipt the Authority consumed was presented to it again an hour later
\* and still carries the time of its first consumption
C37_Witness ==
  \E i, j \in 1..Len(verify_log) :
    /\ i < j
    /\ verify_log[i].obj = verify_log[j].obj
    /\ verify_log[i].outcome = "ok"
    /\ verify_log[j].outcome = "already_consumed"
    /\ heap[verify_log[i].obj].consumed
    /\ heap[verify_log[i].obj].consumed_at = 0
    /\ now = 1

\* C38: once a call has returned success for a receipt_id, which puts the id
\* in the executor's consumed-receipt map, no later call on that executor
\* returns success for a receipt carrying the same receipt_id, whatever that
\* receipt's own consumed flag says.
C38_ConsumedIdNeverAcceptedAgain ==
  [][(/\ Called
      /\ this_call.obj # NoReceipt
      /\ heap[this_call.obj].receipt_id \in dict_keys(consumed_receipts)) =>
       ~this_call.returned]_vars

\* C39: the platform side effect happens, and success is returned, only for
\* receipts the Authority minted: a call presenting a receipt built outside
\* the Authority is refused with audit status rejected_by_auth.
C39_OnlyMintedReceiptsAct ==
  [][(/\ Called
      /\ this_call.obj # NoReceipt
      /\ \A k \in 1..Len(mint_log) : mint_log[k].obj # this_call.obj) =>
       /\ ~this_call.returned
       /\ ~this_call.effect
       /\ this_audit.status = "rejected_by_auth"]_vars

(***************************************************************************)
(* Specification: the bridge executing operations with receipts of its     *)
(* Authority                                                               *)
(***************************************************************************)
ExecuteRequests ==
  {<<request("r-1", PUBLISH_RELEASE, OmegaApp), NoEvidence>>,
   <<request("r-1", PUBLISH_RELEASE, RandomX), NoEvidence>>,
   <<request("r-1", TAG_REPO, OmegaApp), one_approver>>}

within_execute_steps == Len(heap) + Len(plan_log) < MaxSteps

NextExecute ==
  \/ \E m \in ExecuteRequests : within_execute_steps /\ Mint(m[1], m[2])
  \/ within_execute_steps /\ make_receipt("r-1", PUBLISH_RELEASE, TRUE)
  \/ \E kind_text \in {"publish_release", "TAG_REPO"}, obj \in 1..Len(heap),
        script \in {<<"ok">>, <<"not_found">>} :
       /\ within_execute_steps
       /\ execute_with_authorization(kind_text, "r-1", obj, OmegaApp, script)

SpecExecute == Init /\ [][NextExecute]_vars

\* C40: execute_with_authorization with an advisory receipt raises and calls
\* no entry point; with an unconsumed enforceable receipt that the Authority
\* minted for this run and kind, a prod-mode executor and a platform that
\* answers, it calls the entry point of the operation's kind exactly once,
\* the verify_and_consume_receipt that follows succeeds, and the success
\* result is returned.
C40_ExecuteWithAuthorization ==
  [][Planned =>
       LET receipt == heap[this_plan.obj]
           entry_calls == Len(call_log') - Len(call_log)
           platform_ok == entry_calls = 1 => this_call.error_code # "Exception"
       IN /\ ~receipt.enforceable =>
               /\ this_plan.raised = "UnauthorizedOperationError"
               /\ entry_calls = 0
               /\ verify_log' = verify_log
          /\ (/\ receipt.enforceable
              /\ ~receipt.consumed
              /\ \E k \in 1..Len(mint_log) : mint_log[k].obj = this_plan.obj
              /\ receipt.run_id = this_plan.run_id
              /\ receipt.operation_kind = this_plan.operation_kind
              /\ mode = "prod"
              /\ platform_ok) =>
               /\ entry_calls = 1
               /\ this_call.operation_kind = this_plan.operation_kind
               /\ this_call.returned
               /\ Len(verify_log') = Len(verify_log) + 1
               /\ verify_log'[Len(verify_log')].outcome = "ok"
               /\ this_plan.returned]_vars

====
